---- MODULE Spec2Model ----
(***************************************************************************)
(* Approval gate for NetworkPolicy objects.                                *)
(*                                                                         *)
(* The store holds two kinds of objects the gate works on: approval        *)
(* secrets (namespaced, the "tokens") and CertificateSigningRequests       *)
(* (cluster-scoped, the "approval requests").  The validating webhook      *)
(* (ValidateCreate / ValidateUpdate / ValidateDelete) reads secrets and    *)
(* creates CSRs; the CSR reconciler turns an approved CSR into a secret.   *)
(* The reconciler's sweep, cleanupOrphanedSecrets, deletes the secrets     *)
(* whose CSR is gone.  A secret that carries a finalizer is not removed by *)
(* a delete call: the store marks it with a deletion timestamp and removes *)
(* it when its last finalizer is cleared.                                  *)
(*                                                                         *)
(* Strings that are built with fmt.Sprintf("np-approval-%s-%s", ...) are   *)
(* modelled as sequences of '-'-separated tokens, so that the formatting   *)
(* is a concatenation and not an opaque pairing.                           *)
(*                                                                         *)
(* Where handlers run concurrently, Reconcile and the sweep are taken one  *)
(* store call at a time, and a secret carries its resourceVersion: Create  *)
(* refuses a key that exists, Update refuses an outdated version.          *)
(***************************************************************************)
EXTENDS Naturals, Sequences, FiniteSets, TLC

VARIABLES
    secrets,    \* the store's Secret objects: <<namespace, name>> -> Secret
    csrs,       \* the store's CertificateSigningRequests: name -> CSR
    last,       \* the handler that ran last, its input, its result, its store calls
    adm         \* per worker: its position inside the handler it runs step by
                \* step (validateNetworkPolicyApproval, Reconcile or the sweep)
                \* and the objects it holds in memory

vars == <<secrets, csrs, last, adm>>

----------------------------------------------------------------------------
(* Bounds of the model *)

\* number of distinct NetworkPolicy spec contents a policy can be submitted with
NumSpecs == 2

PolicySpecs == 1..NumSpecs

PolicyNames == {<<"p1">>, <<"p2">>}

Namespaces == {<<"ns1">>}

Policies == [name : PolicyNames, namespace : Namespaces, spec : PolicySpecs]

Workers == {"w1", "w2"}

----------------------------------------------------------------------------
(* Program constants *)

AnnotationApprovalHash == "networkpolicy.webhook.io/approval-hash"

AnnotationCSRName == "networkpolicy.webhook.io/csr-name"

LabelNetworkPolicyApproval == "networkpolicy.webhook.io/approval"

SecretTypeNetworkPolicyApproval == "networkpolicy.webhook.io/approval"

AnnotationPolicyName == "networkpolicy.webhook.io/name"

AnnotationPolicyNamespace == "networkpolicy.webhook.io/namespace"

ApprovalProtectionFinalizer == "networkpolicy.webhook.io/approval-protection"

\* the finalizer cleanupOrphanedSecrets looks for and removes
CleanupFinalizer == "networkpolicy-approval-protection"

\* the error strings of validateNetworkPolicyApproval
ErrNil == "nil"

ErrHash == "failed to generate NetworkPolicy hash"

ErrCheckCertificate == "failed to check for approved certificate"

ErrCheckCSR == "failed to check existing CSR"

ErrNotApproved == "NetworkPolicy has not been approved yet"

ErrCreateCSR == "failed to create approval CSR"

----------------------------------------------------------------------------
(* The store client *)

\* client.Get: found or NotFound
ClientGet(store, key) == key \in DOMAIN store

\* client.Create: refuses a key that is present (AlreadyExists)
ClientCreateOK(store, key) == key \notin DOMAIN store

\* the store after a successful Create or Update of obj under key
ClientPut(store, key, obj) == (key :> obj) @@ store

\* the store after a Delete of key
ClientRemove(store, key) == [k \in DOMAIN store \ {key} |-> store[k]]

\* client.Update of an existing object: the object is replaced; an object that
\* has a deletion timestamp and is left without finalizers is removed
ClientUpdate(store, key, obj) ==
    IF key \notin DOMAIN store THEN store
    ELSE IF obj.deletionTimestamp /\ obj.finalizers = {}
         THEN ClientRemove(store, key)
         ELSE ClientPut(store, key, obj)

\* client.Delete: an object that carries no finalizer is removed; one that
\* carries a finalizer stays in the store and gets a deletion timestamp
ClientDelete(store, key) ==
    IF key \notin DOMAIN store THEN store
    ELSE IF store[key].finalizers = {}
         THEN ClientRemove(store, key)
         ELSE ClientPut(store, key, [store[key] EXCEPT !.deletionTimestamp = TRUE])

----------------------------------------------------------------------------
(* Fingerprint and derived names *)

\* the digest of the whole object, metadata included
generateNetworkPolicyHash_WholeObject(np) == <<"sha256", np>>

\* the digest of the name and the spec only
generateNetworkPolicyHash_NoNamespace(np) == <<"sha256", np.name, np.spec>>

\* json.Marshal(NetworkPolicyData{Name, Namespace, Spec}), then sha256, then %x:
\* the digest is determined by exactly these three fields, in this order.
generateNetworkPolicyHash(np) == <<"sha256", np.name, np.namespace, np.spec>>

\* fmt.Sprintf("np-approval-%s-%s", namespace, name)
ApprovalName(namespace, name) == <<"np", "approval">> \o namespace \o name

\* types.NamespacedName{Name: secretName, Namespace: np.Namespace}
SecretKey(namespace, name) == <<namespace, ApprovalName(namespace, name)>>

----------------------------------------------------------------------------
(* Objects *)

\* createApprovalCSR without the policy's namespace among the annotations
ApprovalCSR_NoNamespace(np, hash) ==
    [ labels      |-> (LabelNetworkPolicyApproval :> "true"),
      annotations |-> (AnnotationApprovalHash :> hash)
                      @@ (AnnotationPolicyName :> np.name),
      request     |-> ApprovalName(np.namespace, np.name),
      conditions  |-> {},
      certificate |-> "" ]

\* The CertificateSigningRequest createApprovalCSR builds: the approval label,
\* the three annotations, the PEM request (its subject names the request), no
\* status yet.
ApprovalCSR(np, hash) ==
    [ labels      |-> (LabelNetworkPolicyApproval :> "true"),
      annotations |-> (AnnotationApprovalHash :> hash)
                      @@ (AnnotationPolicyName :> np.name)
                      @@ (AnnotationPolicyNamespace :> np.namespace),
      request     |-> ApprovalName(np.namespace, np.name),
      conditions  |-> {},
      certificate |-> "" ]

\* the value `last` holds before any handler has run
NoCall ==
    [op |-> "none", arg |-> <<>>, err |-> ErrNil, requeue |-> FALSE,
     calls |-> <<>>, before |-> <<>>]

\* a handler's outcome: the returned error and Requeue flag, and the store
\* calls the handler made, in order
Outcome(op, arg, err, requeue, calls) ==
    [op |-> op, arg |-> arg, err |-> err, requeue |-> requeue,
     calls |-> calls, before |-> <<>>]

\* the outcome of an admission review of np; `before` holds the store calls of
\* the review that ran immediately before this one, if that was a create or
\* update review of the same policy (and <<>> otherwise)
AdmitOutcome(op, np, err, calls) ==
    [op |-> op, arg |-> np, err |-> err, requeue |-> FALSE, calls |-> calls,
     before |-> IF /\ last.op \in {"ValidateCreate", "ValidateUpdate"}
                   /\ last.arg = np
                THEN last.calls ELSE <<>>]

\* the policy an idle admission worker holds
NoPolicy == [name |-> <<>>, namespace |-> <<>>, spec |-> 0]

IdleWorker == [pc |-> "idle", np |-> NoPolicy, err |-> ErrNil, createErr |-> ErrNil]

----------------------------------------------------------------------------
(* Admission gate *)

\* checkForApprovedCertificate without the secret type check
checkForApprovedCertificate_NoType(np, hash) ==
    LET key == SecretKey(np.namespace, np.name) IN
    IF ~ClientGet(secrets, key) THEN FALSE
    ELSE LET secret == secrets[key] IN
         IF "hash" \notin DOMAIN secret.data THEN FALSE
         ELSE IF secret.data["hash"] # hash THEN FALSE
         ELSE IF "tls.crt" \notin DOMAIN secret.data THEN FALSE
         ELSE IF secret.data["tls.crt"] = "" THEN FALSE
         ELSE TRUE

\* checkForApprovedCertificate without the comparison of the stored hash
checkForApprovedCertificate_NoHash(np, hash) ==
    LET key == SecretKey(np.namespace, np.name) IN
    IF ~ClientGet(secrets, key) THEN FALSE
    ELSE LET secret == secrets[key] IN
         IF secret.type # SecretTypeNetworkPolicyApproval THEN FALSE
         ELSE IF "hash" \notin DOMAIN secret.data THEN FALSE
         ELSE IF "tls.crt" \notin DOMAIN secret.data THEN FALSE
         ELSE IF secret.data["tls.crt"] = "" THEN FALSE
         ELSE TRUE

\* checkForApprovedCertificate: true iff the secret np-approval-<ns>-<name> in
\* the policy's namespace exists, has the approval type, stores this hash and
\* holds non-empty bytes under Data["tls.crt"].
checkForApprovedCertificate(np, hash) ==
    LET key == SecretKey(np.namespace, np.name) IN
    IF ~ClientGet(secrets, key) THEN FALSE
    ELSE LET secret == secrets[key] IN
         IF secret.type # SecretTypeNetworkPolicyApproval THEN FALSE
         ELSE IF "hash" \notin DOMAIN secret.data THEN FALSE
         ELSE IF secret.data["hash"] # hash THEN FALSE
         ELSE IF "tls.crt" \notin DOMAIN secret.data THEN FALSE
         ELSE IF secret.data["tls.crt"] = "" THEN FALSE
         ELSE TRUE

\* validateNetworkPolicyApproval returning nil when the request already exists
validateNetworkPolicyApproval_AllowPending(op, np) ==
    LET hash    == generateNetworkPolicyHash(np)
        csrName == ApprovalName(np.namespace, np.name)
    IN  /\ UNCHANGED <<secrets, adm>>
        /\ IF checkForApprovedCertificate(np, hash)
           THEN /\ UNCHANGED csrs
                /\ last' = AdmitOutcome(op, np, ErrNil, <<"GetSecret">>)
           ELSE IF ClientGet(csrs, csrName)
           THEN /\ UNCHANGED csrs
                /\ last' = AdmitOutcome(op, np, ErrNil,
                                        <<"GetSecret", "GetCSR">>)
           ELSE /\ csrs' = ClientPut(csrs, csrName, ApprovalCSR(np, hash))
                /\ last' = AdmitOutcome(op, np, ErrNotApproved,
                                        <<"GetSecret", "GetCSR", "CreateCSR">>)

\* validateNetworkPolicyApproval, run to completion by one call: hash, token
\* check, then (when not approved) look the request up and create it if absent.
validateNetworkPolicyApproval(op, np) ==
    LET hash    == generateNetworkPolicyHash(np)
        csrName == ApprovalName(np.namespace, np.name)
    IN  /\ UNCHANGED <<secrets, adm>>
        /\ IF checkForApprovedCertificate(np, hash)
           THEN /\ UNCHANGED csrs
                /\ last' = AdmitOutcome(op, np, ErrNil, <<"GetSecret">>)
           ELSE IF ClientGet(csrs, csrName)
           THEN /\ UNCHANGED csrs
                /\ last' = AdmitOutcome(op, np, ErrNotApproved,
                                        <<"GetSecret", "GetCSR">>)
           ELSE /\ csrs' = ClientPut(csrs, csrName, ApprovalCSR(np, hash))
                /\ last' = AdmitOutcome(op, np, ErrNotApproved,
                                        <<"GetSecret", "GetCSR", "CreateCSR">>)

\* the calls of validateNetworkPolicyApproval that can return an error: the
\* hash, the Get of the secret, the Get of the CSR, the creation of the CSR
AdmitFaults == {"none", "hash", "getSecret", "getCSR", "createCSR"}

\* validateNetworkPolicyApproval taking a failed Get of the secret for an
\* approval
validateNetworkPolicyApprovalWith_FailOpen(op, np, fault) ==
    LET hash    == generateNetworkPolicyHash(np)
        csrName == ApprovalName(np.namespace, np.name)
    IN  /\ UNCHANGED <<secrets, adm>>
        /\ IF fault = "hash"
           THEN /\ UNCHANGED csrs
                /\ last' = Outcome(op, np, ErrHash, FALSE,
                                   <<"Hash failed">>)
           ELSE IF fault = "getSecret"
           THEN /\ UNCHANGED csrs
                /\ last' = Outcome(op, np, ErrNil, FALSE,
                                   <<"GetSecret failed">>)
           ELSE IF checkForApprovedCertificate(np, hash)
           THEN /\ UNCHANGED csrs
                /\ last' = Outcome(op, np, ErrNil, FALSE,
                                   <<"GetSecret">>)
           ELSE IF fault = "getCSR"
           THEN /\ UNCHANGED csrs
                /\ last' = Outcome(op, np, ErrCheckCSR, FALSE,
                                   <<"GetSecret", "GetCSR failed">>)
           ELSE IF ClientGet(csrs, csrName)
           THEN /\ UNCHANGED csrs
                /\ last' = Outcome(op, np, ErrNotApproved, FALSE,
                                   <<"GetSecret", "GetCSR">>)
           ELSE IF fault = "createCSR"
           THEN /\ UNCHANGED csrs
                /\ last' = Outcome(op, np, ErrCreateCSR, FALSE,
                                   <<"GetSecret", "GetCSR", "CreateCSR failed">>)
           ELSE /\ csrs' = ClientPut(csrs, csrName, ApprovalCSR(np, hash))
                /\ last' = Outcome(op, np, ErrNotApproved, FALSE,
                                   <<"GetSecret", "GetCSR", "CreateCSR">>)

\* validateNetworkPolicyApproval under a fault, run to completion: each of
\* the four calls that returns an error (for the two Gets: one other than
\* not-found) makes the function return that error, wrapped
validateNetworkPolicyApprovalWith(op, np, fault) ==
    LET hash    == generateNetworkPolicyHash(np)
        csrName == ApprovalName(np.namespace, np.name)
    IN  /\ UNCHANGED <<secrets, adm>>
        /\ IF fault = "hash"
           THEN /\ UNCHANGED csrs
                /\ last' = Outcome(op, np, ErrHash, FALSE,
                                   <<"Hash failed">>)
           ELSE IF fault = "getSecret"
           THEN /\ UNCHANGED csrs
                /\ last' = Outcome(op, np, ErrCheckCertificate, FALSE,
                                   <<"GetSecret failed">>)
           ELSE IF checkForApprovedCertificate(np, hash)
           THEN /\ UNCHANGED csrs
                /\ last' = Outcome(op, np, ErrNil, FALSE,
                                   <<"GetSecret">>)
           ELSE IF fault = "getCSR"
           THEN /\ UNCHANGED csrs
                /\ last' = Outcome(op, np, ErrCheckCSR, FALSE,
                                   <<"GetSecret", "GetCSR failed">>)
           ELSE IF ClientGet(csrs, csrName)
           THEN /\ UNCHANGED csrs
                /\ last' = Outcome(op, np, ErrNotApproved, FALSE,
                                   <<"GetSecret", "GetCSR">>)
           ELSE IF fault = "createCSR"
           THEN /\ UNCHANGED csrs
                /\ last' = Outcome(op, np, ErrCreateCSR, FALSE,
                                   <<"GetSecret", "GetCSR", "CreateCSR failed">>)
           ELSE /\ csrs' = ClientPut(csrs, csrName, ApprovalCSR(np, hash))
                /\ last' = Outcome(op, np, ErrNotApproved, FALSE,
                                   <<"GetSecret", "GetCSR", "CreateCSR">>)

ValidateCreate(np) == validateNetworkPolicyApproval("ValidateCreate", np)

ValidateUpdate(np) == validateNetworkPolicyApproval("ValidateUpdate", np)

\* ValidateDelete running the approval check like the other two hooks
ValidateDelete_Gated(np) == validateNetworkPolicyApproval("ValidateDelete", np)

\* ValidateDelete: allow, without looking at the store
ValidateDelete(np) ==
    /\ UNCHANGED <<secrets, csrs, adm>>
    /\ last' = Outcome("ValidateDelete", np, ErrNil, FALSE, <<>>)

----------------------------------------------------------------------------
(* Grant materializer: CertificateSigningRequestReconciler.Reconcile *)

\* AddFinalizer with no effect on the object
WithFinalizer_None(secret, finalizer) ==
    secret

\* controllerutil.ContainsFinalizer / AddFinalizer on the in-memory object
WithFinalizer(secret, finalizer) ==
    [secret EXCEPT !.finalizers = @ \cup {finalizer}]

\* the outcome of Reconcile(reqName); `before` holds the store calls of the run
\* that ran immediately before this one, if that was a run for the same
\* request (and <<>> otherwise)
ReconcileOutcome(op, reqName, err, requeue, calls) ==
    [op |-> op, arg |-> reqName, err |-> err, requeue |-> requeue, calls |-> calls,
     before |-> IF /\ last.op \in {"Reconcile", "ReconcileStopped"}
                   /\ last.arg = reqName
                THEN last.calls ELSE <<>>]

\* the label test that lets every request through
isNPApproval_Always(csr) ==
    TRUE

\* _, isNPApproval := csr.Labels["networkpolicy.webhook.io/approval"]
isNPApproval(csr) ==
    LabelNetworkPolicyApproval \in DOMAIN csr.labels

\* the approval test that lets every request through
isApproved_Always(csr) ==
    TRUE

\* the approval test that takes any decision for an approval
isApproved_AnyCondition(csr) ==
    csr.conditions # {}

\* the loop over csr.Status.Conditions: a condition of type Approved, whatever
\* its status
isApproved(csr) ==
    \E condition \in csr.conditions : condition.type = "Approved"

\* hasNPName && hasNPNamespace && hasHash
hasRequiredAnnotations(csr) ==
    /\ AnnotationPolicyName \in DOMAIN csr.annotations
    /\ AnnotationPolicyNamespace \in DOMAIN csr.annotations
    /\ AnnotationApprovalHash \in DOMAIN csr.annotations

\* the certificate test that lets every request through
hasCertificate_Always(csr) ==
    TRUE

\* the certificate test that finds no certificate ever
hasCertificate_Never(csr) ==
    FALSE

\* len(csr.Status.Certificate) != 0
hasCertificate(csr) ==
    csr.certificate # ""

\* a secret name built from the request's own name
secretNamespacedName_PerRequest(csr, reqName) ==
    <<csr.annotations[AnnotationPolicyNamespace], <<"np", "approval">> \o reqName>>

\* secretNamespacedName of Reconcile: np-approval-<npNamespace>-<npName> in
\* npNamespace, both taken from the annotations; the request's name is not
\* part of it
secretNamespacedName(csr, reqName) ==
    SecretKey(csr.annotations[AnnotationPolicyNamespace],
              csr.annotations[AnnotationPolicyName])

\* secretData storing the request's name where the hash belongs
secretData_NameForHash(csr, reqName) ==
    ("hash" :> reqName)
    @@ ("tls-crt" :> csr.certificate)
    @@ ("csr-name" :> reqName)

\* secretData of Reconcile
secretData(csr, reqName) ==
    ("hash" :> csr.annotations[AnnotationApprovalHash])
    @@ ("tls-crt" :> csr.certificate)
    @@ ("csr-name" :> reqName)

\* newSecret whose Type is left empty
newSecret_NoType(csr, reqName) ==
    [ type        |-> "",
      labels      |-> ("networkpolicy.webhook.io/approval" :> "true")
                      @@ ("networkpolicy.webhook.io/name" :> csr.annotations[AnnotationPolicyName]),
      annotations |-> ("networkpolicy.webhook.io/csr-name" :> reqName)
                      @@ ("networkpolicy.webhook.io/approval-hash" :> csr.annotations[AnnotationApprovalHash])
                      @@ ("networkpolicy.webhook.io/np-name" :> csr.annotations[AnnotationPolicyName])
                      @@ ("networkpolicy.webhook.io/np-namespace" :> csr.annotations[AnnotationPolicyNamespace]),
      finalizers  |-> {},
      deletionTimestamp |-> FALSE,
      data        |-> secretData(csr, reqName) ]

\* newSecret of Reconcile: labels, annotations, Type and Data; a created
\* object has no finalizer and no deletion timestamp
newSecret(csr, reqName) ==
    [ type        |-> "networkpolicy.webhook.io/approval",
      labels      |-> ("networkpolicy.webhook.io/approval" :> "true")
                      @@ ("networkpolicy.webhook.io/name" :> csr.annotations[AnnotationPolicyName]),
      annotations |-> ("networkpolicy.webhook.io/csr-name" :> reqName)
                      @@ ("networkpolicy.webhook.io/approval-hash" :> csr.annotations[AnnotationApprovalHash])
                      @@ ("networkpolicy.webhook.io/np-name" :> csr.annotations[AnnotationPolicyName])
                      @@ ("networkpolicy.webhook.io/np-namespace" :> csr.annotations[AnnotationPolicyNamespace]),
      finalizers  |-> {},
      deletionTimestamp |-> FALSE,
      data        |-> secretData(csr, reqName) ]

\* the update path leaving Data as it was
WithData_Keep(secret, data) ==
    secret

\* secret.Data = secretData
WithData(secret, data) ==
    [secret EXCEPT !.data = data]

\* Reconcile(req), run to completion.  The early returns follow the code: CSR
\* absent, label absent, no condition of type Approved, an annotation missing
\* (all: empty result, nil error), certificate empty (Requeue).  Otherwise the
\* secret is created with labels, annotations, type and data and then updated
\* with the finalizer, or, when it exists, its Data is replaced, it is updated,
\* and it is updated once more if the finalizer was missing.
Reconcile(reqName) ==
    /\ UNCHANGED <<csrs, adm>>
    /\ IF ~ClientGet(csrs, reqName)
       THEN /\ UNCHANGED secrets
            /\ last' = ReconcileOutcome("Reconcile", reqName, ErrNil, FALSE, <<"GetCSR">>)
       ELSE
       LET csr == csrs[reqName] IN
       IF ~isNPApproval(csr)
       THEN /\ UNCHANGED secrets
            /\ last' = ReconcileOutcome("Reconcile", reqName, ErrNil, FALSE, <<"GetCSR">>)
       ELSE IF ~isApproved(csr)
       THEN /\ UNCHANGED secrets
            /\ last' = ReconcileOutcome("Reconcile", reqName, ErrNil, FALSE, <<"GetCSR">>)
       ELSE IF ~hasRequiredAnnotations(csr)
       THEN /\ UNCHANGED secrets
            /\ last' = ReconcileOutcome("Reconcile", reqName, ErrNil, FALSE, <<"GetCSR">>)
       ELSE IF ~hasCertificate(csr)
       THEN /\ UNCHANGED secrets
            /\ last' = ReconcileOutcome("Reconcile", reqName, ErrNil, TRUE, <<"GetCSR">>)
       ELSE
       LET key == secretNamespacedName(csr, reqName)
       IN
       IF ~ClientGet(secrets, key)
       THEN /\ secrets' = ClientPut(secrets, key,
                              WithFinalizer(newSecret(csr, reqName),
                                            ApprovalProtectionFinalizer))
            /\ last' = ReconcileOutcome("Reconcile", reqName, ErrNil, FALSE,
                               <<"GetCSR", "GetSecret", "CreateSecret", "UpdateSecret">>)
       ELSE LET secret == WithData(secrets[key], secretData(csr, reqName)) IN
            /\ secrets' = ClientPut(secrets, key,
                              WithFinalizer(secret, ApprovalProtectionFinalizer))
            /\ last' = ReconcileOutcome("Reconcile", reqName, ErrNil, FALSE,
                               IF ApprovalProtectionFinalizer \in secret.finalizers
                               THEN <<"GetCSR", "GetSecret", "UpdateSecret">>
                               ELSE <<"GetCSR", "GetSecret", "UpdateSecret", "UpdateSecret">>)

\* a run of Reconcile(req) on the create path whose process stops after
\* CreateResource has returned and before AddFinalizer is called: the secret is
\* in the store without the finalizer and nothing is returned
ReconcileStopped(reqName) ==
    /\ ClientGet(csrs, reqName)
    /\ LET csr == csrs[reqName] IN
       /\ isNPApproval(csr)
       /\ isApproved(csr)
       /\ hasRequiredAnnotations(csr)
       /\ hasCertificate(csr)
       /\ LET key == secretNamespacedName(csr, reqName)
          IN /\ ~ClientGet(secrets, key)
             /\ secrets' = ClientPut(secrets, key, newSecret(csr, reqName))
    /\ last' = ReconcileOutcome("ReconcileStopped", reqName, "stopped", FALSE,
                                <<"GetCSR", "GetSecret", "CreateSecret">>)
    /\ UNCHANGED <<csrs, adm>>

----------------------------------------------------------------------------
(* Orphan sweep: CertificateSigningRequestReconciler.cleanupOrphanedSecrets *)

\* the store calls of the loop body for one listed secret
cleanupCalls(secret) ==
    IF AnnotationCSRName \notin DOMAIN secret.annotations THEN <<>>
    ELSE IF ClientGet(csrs, secret.annotations[AnnotationCSRName]) THEN <<"GetCSR">>
    ELSE IF CleanupFinalizer \in secret.finalizers
         THEN <<"GetCSR", "UpdateSecret", "DeleteSecret">>
         ELSE <<"GetCSR", "DeleteSecret">>

\* the loop body that deletes an orphan without touching its finalizers
cleanupSecret_NoRemove(store, key, secret) ==
    IF AnnotationCSRName \notin DOMAIN secret.annotations THEN store
    ELSE IF ClientGet(csrs, secret.annotations[AnnotationCSRName]) THEN store
    ELSE ClientDelete(store, key)

\* the loop body that takes a secret without the csr-name annotation for an
\* orphan
cleanupSecret_UnannotatedIsOrphan(store, key, secret) ==
    IF /\ AnnotationCSRName \in DOMAIN secret.annotations
       /\ ClientGet(csrs, secret.annotations[AnnotationCSRName])
    THEN store
    ELSE IF CleanupFinalizer \in secret.finalizers
         THEN ClientDelete(
                  ClientUpdate(store, key,
                      [secret EXCEPT !.finalizers = @ \ {CleanupFinalizer}]),
                  key)
         ELSE ClientDelete(store, key)

\* the loop body for one listed secret: no csr-name annotation, or the CSR
\* exists: continue; otherwise RemoveFinalizer (an update, only if the secret
\* contains "networkpolicy-approval-protection") and then DeleteResource
cleanupSecret(store, key, secret) ==
    IF AnnotationCSRName \notin DOMAIN secret.annotations THEN store
    ELSE IF ClientGet(csrs, secret.annotations[AnnotationCSRName]) THEN store
    ELSE IF CleanupFinalizer \in secret.finalizers
         THEN ClientDelete(
                  ClientUpdate(store, key,
                      [secret EXCEPT !.finalizers = @ \ {CleanupFinalizer}]),
                  key)
         ELSE ClientDelete(store, key)

\* the loop over secretList.Items; the items are those listed at the start
RECURSIVE cleanupItems(_, _, _)
cleanupItems(store, items, keys) ==
    IF keys = {} THEN store
    ELSE LET key == CHOOSE k \in keys : TRUE
         IN cleanupItems(cleanupSecret(store, key, items[key]), items, keys \ {key})

\* cleanupOrphanedSecrets(ctx), run to completion: List the secrets whose type
\* is the approval type, then the loop.  The outcome records, per listed
\* secret, the store calls made for it; `before` holds that record of the
\* sweep that ran immediately before this one (and <<>> otherwise)
cleanupOrphanedSecrets ==
    LET listed == {key \in DOMAIN secrets :
                      secrets[key].type = "networkpolicy.webhook.io/approval"}
    IN
    /\ secrets' = cleanupItems(secrets, secrets, listed)
    /\ last' = [op |-> "cleanupOrphanedSecrets",
                arg |-> [key \in listed |-> cleanupCalls(secrets[key])],
                err |-> ErrNil, requeue |-> FALSE, calls |-> <<"ListSecrets">>,
                before |-> IF last.op = "cleanupOrphanedSecrets"
                           THEN last.arg ELSE <<>>]
    /\ UNCHANGED <<csrs, adm>>

----------------------------------------------------------------------------
(* The sweep with failing store calls.  For each listed secret at most one
   of the calls made for it fails: the lookup of the CSR (an error other than
   not-found), the update that persists the finalizer's removal, or the
   delete.  The List call itself may fail. *)

Faults == {"none", "get", "update", "delete"}

\* the store calls of the loop body for one listed secret under a fault
cleanupCallsWith(secret, fault) ==
    IF AnnotationCSRName \notin DOMAIN secret.annotations THEN <<>>
    ELSE IF fault = "get" THEN <<"GetCSR failed">>
    ELSE IF ClientGet(csrs, secret.annotations[AnnotationCSRName]) THEN <<"GetCSR">>
    ELSE IF CleanupFinalizer \in secret.finalizers
         THEN IF fault = "update" THEN <<"GetCSR", "UpdateSecret failed">>
              ELSE IF fault = "delete"
                   THEN <<"GetCSR", "UpdateSecret", "DeleteSecret failed">>
                   ELSE <<"GetCSR", "UpdateSecret", "DeleteSecret">>
         ELSE IF fault = "delete"
              THEN <<"GetCSR", "DeleteSecret failed">>
              ELSE <<"GetCSR", "DeleteSecret">>

\* the loop body that calls DeleteResource only inside the finalizer branch
cleanupSecretWith_DeleteOnlyGuarded(store, key, secret, fault) ==
    IF AnnotationCSRName \notin DOMAIN secret.annotations THEN store
    ELSE IF fault = "get" THEN store
    ELSE IF ClientGet(csrs, secret.annotations[AnnotationCSRName]) THEN store
    ELSE IF CleanupFinalizer \in secret.finalizers
         THEN IF fault = "update" THEN store
              ELSE LET updated == ClientUpdate(store, key,
                                     [secret EXCEPT !.finalizers = @ \ {CleanupFinalizer}])
                   IN IF fault = "delete" THEN updated
                      ELSE ClientDelete(updated, key)
         ELSE store

\* the loop body that takes every failed lookup for a not-found
cleanupSecretWith_ErrorIsOrphan(store, key, secret, fault) ==
    IF AnnotationCSRName \notin DOMAIN secret.annotations THEN store
    ELSE IF fault # "get" /\ ClientGet(csrs, secret.annotations[AnnotationCSRName])
         THEN store
    ELSE IF CleanupFinalizer \in secret.finalizers
         THEN IF fault = "update" THEN store
              ELSE LET updated == ClientUpdate(store, key,
                                     [secret EXCEPT !.finalizers = @ \ {CleanupFinalizer}])
                   IN IF fault = "delete" THEN updated
                      ELSE ClientDelete(updated, key)
         ELSE IF fault = "delete" THEN store
              ELSE ClientDelete(store, key)

\* the loop body for one listed secret under a fault: a failed lookup
\* (err != nil && !IsNotFound) and a failed RemoveFinalizer continue with the
\* next item; a failed DeleteResource is logged
cleanupSecretWith(store, key, secret, fault) ==
    IF AnnotationCSRName \notin DOMAIN secret.annotations THEN store
    ELSE IF fault = "get" THEN store
    ELSE IF ClientGet(csrs, secret.annotations[AnnotationCSRName]) THEN store
    ELSE IF CleanupFinalizer \in secret.finalizers
         THEN IF fault = "update" THEN store
              ELSE LET updated == ClientUpdate(store, key,
                                     [secret EXCEPT !.finalizers = @ \ {CleanupFinalizer}])
                   IN IF fault = "delete" THEN updated
                      ELSE ClientDelete(updated, key)
         ELSE IF fault = "delete" THEN store
              ELSE ClientDelete(store, key)

\* the loop that returns at the first item for which a call failed
RECURSIVE cleanupItemsWith_Abort(_, _, _, _)
cleanupItemsWith_Abort(store, items, keys, faults) ==
    IF keys = {} THEN store
    ELSE LET key == CHOOSE k \in keys : TRUE
         IN IF faults[key] # "none"
            THEN cleanupSecretWith(store, key, items[key], faults[key])
            ELSE cleanupItemsWith_Abort(
                     cleanupSecretWith(store, key, items[key], faults[key]),
                     items, keys \ {key}, faults)

\* the loop over secretList.Items under faults
RECURSIVE cleanupItemsWith(_, _, _, _)
cleanupItemsWith(store, items, keys, faults) ==
    IF keys = {} THEN store
    ELSE LET key == CHOOSE k \in keys : TRUE
         IN cleanupItemsWith(cleanupSecretWith(store, key, items[key], faults[key]),
                             items, keys \ {key}, faults)

\* cleanupOrphanedSecrets(ctx) under faults, run to completion: a failed List
\* returns the error "failed to list secrets"; otherwise the loop runs over
\* every listed item and nil is returned
cleanupOrphanedSecretsWith(listFails, faults) ==
    LET listed == {key \in DOMAIN secrets :
                      secrets[key].type = "networkpolicy.webhook.io/approval"}
    IN
    /\ DOMAIN faults = listed
    /\ IF listFails
       THEN /\ UNCHANGED secrets
            /\ last' = [op |-> "cleanupOrphanedSecrets", arg |-> <<>>,
                        err |-> "failed to list secrets", requeue |-> FALSE,
                        calls |-> <<"ListSecrets failed">>,
                        before |-> IF last.op = "cleanupOrphanedSecrets"
                                   THEN last.arg ELSE <<>>]
       ELSE /\ secrets' = cleanupItemsWith(secrets, secrets, listed, faults)
            /\ last' = [op |-> "cleanupOrphanedSecrets",
                        arg |-> [key \in listed |->
                                    cleanupCallsWith(secrets[key], faults[key])],
                        err |-> ErrNil, requeue |-> FALSE, calls |-> <<"ListSecrets">>,
                        before |-> IF last.op = "cleanupOrphanedSecrets"
                                   THEN last.arg ELSE <<>>]
    /\ UNCHANGED <<csrs, adm>>

----------------------------------------------------------------------------
(* The approval authority and the signer, outside the program *)

External == Outcome("external", <<>>, ErrNil, FALSE, <<>>)

\* the approver attaches the Approved condition
ApproveCSR(name) ==
    /\ ClientGet(csrs, name)
    /\ csrs[name].conditions = {}
    /\ csrs' = ClientPut(csrs, name,
                  [csrs[name] EXCEPT !.conditions = {[type |-> "Approved", status |-> "True"]}])
    /\ last' = External
    /\ UNCHANGED <<secrets, adm>>

\* the signer fills status.certificate of an approved request
IssueCertificate(name) ==
    /\ ClientGet(csrs, name)
    /\ \E condition \in csrs[name].conditions : condition.type = "Approved"
    /\ csrs[name].certificate = ""
    /\ csrs' = ClientPut(csrs, name, [csrs[name] EXCEPT !.certificate = "crt"])
    /\ last' = External
    /\ UNCHANGED <<secrets, adm>>

\* the request is withdrawn
DeleteCSR(name) ==
    /\ ClientGet(csrs, name)
    /\ csrs' = ClientRemove(csrs, name)
    /\ last' = External
    /\ UNCHANGED <<secrets, adm>>

----------------------------------------------------------------------------
(* Specification of the approval flow: gate, approver, signer, materializer
   and sweep.  Secrets are written by the materializer and the sweep only. *)

RequestNames == {ApprovalName(ns, n) : ns \in Namespaces, n \in PolicyNames}

Init ==
    /\ secrets = <<>>
    /\ csrs = <<>>
    /\ last = NoCall
    /\ adm = [w \in Workers |-> IdleWorker]

Next ==
    \/ \E np \in Policies : ValidateCreate(np)
    \/ \E np \in Policies : ValidateUpdate(np)
    \/ \E np \in Policies : ValidateDelete(np)
    \/ \E name \in RequestNames : Reconcile(name)
    \/ \E name \in RequestNames : ApproveCSR(name)
    \/ \E name \in RequestNames : IssueCertificate(name)
    \/ \E name \in RequestNames : DeleteCSR(name)
    \/ cleanupOrphanedSecrets

Spec == Init /\ [][Next]_vars

----------------------------------------------------------------------------
(* Specification of the gate over arbitrary store contents: the store starts
   with any one secret under a policy's approval name (as a test fixture or
   any client of the store may have put it there) and possibly the policy's
   request; the three admission hooks are then called in any order. *)

\* the hashes a stored secret may carry for the identity (namespace, name)
FixtureHashes(namespace, name) ==
    {generateNetworkPolicyHash([name |-> name, namespace |-> namespace, spec |-> sp]) :
        sp \in PolicySpecs} \cup {<<"different-hash">>}

\* Data maps: any subset of the keys hash, tls-crt, tls.crt, plus csr-name
FixtureData(namespace, name) ==
    {[k \in keys \cup {"csr-name"} |->
        IF k = "hash" THEN h
        ELSE IF k = "tls-crt" THEN dash
        ELSE IF k = "tls.crt" THEN dot
        ELSE <<"test", "csr">>] :
      keys \in SUBSET {"hash", "tls-crt", "tls.crt"},
      h \in FixtureHashes(namespace, name),
      dash \in {"crt"},
      dot \in {"", "crt"}}

FixtureSecrets(namespace, name) ==
    [ type        : {SecretTypeNetworkPolicyApproval, "Opaque"},
      labels      : {("networkpolicy.webhook.io/approval" :> "true")
                     @@ ("networkpolicy.webhook.io/name" :> name)},
      annotations : {("networkpolicy.webhook.io/csr-name" :> <<"test", "csr">>)
                     @@ ("networkpolicy.webhook.io/np-name" :> name)
                     @@ ("networkpolicy.webhook.io/np-namespace" :> namespace)},
      finalizers  : {{}},
      deletionTimestamp : {FALSE},
      data        : FixtureData(namespace, name) ]

InitStore ==
    /\ last = NoCall
    /\ adm = [w \in Workers |-> IdleWorker]
    /\ \E ns \in Namespaces, n \in PolicyNames :
          /\ \/ secrets = <<>>
             \/ \E secret \in FixtureSecrets(ns, n) :
                   secrets = (SecretKey(ns, n) :> secret)
          /\ \/ csrs = <<>>
             \/ \E sp \in PolicySpecs :
                   LET np == [name |-> n, namespace |-> ns, spec |-> sp] IN
                   csrs = (ApprovalName(ns, n) :>
                              ApprovalCSR(np, generateNetworkPolicyHash(np)))

NextStore ==
    \/ \E np \in Policies : ValidateCreate(np)
    \/ \E np \in Policies : ValidateUpdate(np)
    \/ \E np \in Policies : ValidateDelete(np)

SpecStore == InitStore /\ [][NextStore]_vars

----------------------------------------------------------------------------
(* Specification of the gate under failing calls, over the store contents of
   the gate specification: create and update reviews in which at most one of
   the calls made fails. *)

\* the store before the reviews: no secret, or a fixture secret that holds
\* the keys the gate reads; no request, or the policy's request
InitStoreFaults ==
    /\ last = NoCall
    /\ adm = [w \in Workers |-> IdleWorker]
    /\ \E ns \in Namespaces, n \in PolicyNames :
          /\ \/ secrets = <<>>
             \/ \E secret \in FixtureSecrets(ns, n) :
                   /\ DOMAIN secret.data = {"hash", "tls.crt", "csr-name"}
                   /\ secrets = (SecretKey(ns, n) :> secret)
          /\ \/ csrs = <<>>
             \/ \E sp \in PolicySpecs :
                   LET np == [name |-> n, namespace |-> ns, spec |-> sp] IN
                   csrs = (ApprovalName(ns, n) :>
                              ApprovalCSR(np, generateNetworkPolicyHash(np)))

NextStoreFaults ==
    \/ \E np \in Policies, fault \in AdmitFaults :
          validateNetworkPolicyApprovalWith("ValidateCreate", np, fault)
    \/ \E np \in Policies, fault \in AdmitFaults :
          validateNetworkPolicyApprovalWith("ValidateUpdate", np, fault)

SpecStoreFaults == InitStoreFaults /\ [][NextStoreFaults]_vars

----------------------------------------------------------------------------
(* Concurrent admission: each worker runs validateNetworkPolicyApproval one
   store call at a time, so that calls of different workers interleave.  The
   steps are the store calls of the atomic version above, in the same order. *)

\* the webhook server hands a create or update review to a worker
AdmitBegin(w, np) ==
    /\ adm[w].pc = "idle"
    /\ adm' = [adm EXCEPT ![w] = [pc |-> "checkApproved", np |-> np,
                                  err |-> ErrNil, createErr |-> ErrNil]]
    /\ UNCHANGED <<secrets, csrs, last>>

\* hash, then checkForApprovedCertificate; approved returns nil
AdmitCheckApproved(w) ==
    /\ adm[w].pc = "checkApproved"
    /\ adm' = [adm EXCEPT ![w].pc =
                 IF checkForApprovedCertificate(adm[w].np,
                                                generateNetworkPolicyHash(adm[w].np))
                 THEN "done" ELSE "getCSR"]
    /\ UNCHANGED <<secrets, csrs, last>>

\* Client.Get of the request: found returns the not-approved denial
AdmitGetCSR(w) ==
    /\ adm[w].pc = "getCSR"
    /\ adm' = [adm EXCEPT ![w] =
                 IF ClientGet(csrs, ApprovalName(adm[w].np.namespace, adm[w].np.name))
                 THEN [@ EXCEPT !.pc = "done", !.err = ErrNotApproved]
                 ELSE [@ EXCEPT !.pc = "createCSR"]]
    /\ UNCHANGED <<secrets, csrs, last>>

\* createApprovalCSR creating the request under a name of its own per call
AdmitCreateCSR_OwnName(w) ==
    LET np      == adm[w].np
        csrName == ApprovalName(np.namespace, np.name) \o <<w>>
    IN  /\ adm[w].pc = "createCSR"
        /\ IF ClientCreateOK(csrs, csrName)
           THEN /\ csrs' = ClientPut(csrs, csrName,
                              ApprovalCSR(np, generateNetworkPolicyHash(np)))
                /\ adm' = [adm EXCEPT ![w].pc = "done", ![w].err = ErrNotApproved]
           ELSE /\ UNCHANGED csrs
                /\ adm' = [adm EXCEPT ![w].pc = "done", ![w].err = ErrCreateCSR,
                                      ![w].createErr = "AlreadyExists"]
        /\ UNCHANGED <<secrets, last>>

\* createApprovalCSR: Client.Create; any error, AlreadyExists included, is
\* wrapped into "failed to create approval CSR"
AdmitCreateCSR(w) ==
    LET np      == adm[w].np
        csrName == ApprovalName(np.namespace, np.name)
    IN  /\ adm[w].pc = "createCSR"
        /\ IF ClientCreateOK(csrs, csrName)
           THEN /\ csrs' = ClientPut(csrs, csrName,
                              ApprovalCSR(np, generateNetworkPolicyHash(np)))
                /\ adm' = [adm EXCEPT ![w].pc = "done", ![w].err = ErrNotApproved]
           ELSE /\ UNCHANGED csrs
                /\ adm' = [adm EXCEPT ![w].pc = "done", ![w].err = ErrCreateCSR,
                                      ![w].createErr = "AlreadyExists"]
        /\ UNCHANGED <<secrets, last>>

\* the response is sent; the worker takes the next review
AdmitReturn(w) ==
    /\ adm[w].pc = "done"
    /\ adm' = [adm EXCEPT ![w] = IdleWorker]
    /\ UNCHANGED <<secrets, csrs, last>>

NextRace ==
    \/ \E w \in Workers, np \in Policies : AdmitBegin(w, np)
    \/ \E w \in Workers : AdmitCheckApproved(w)
    \/ \E w \in Workers : AdmitGetCSR(w)
    \/ \E w \in Workers : AdmitCreateCSR(w)
    \/ \E w \in Workers : AdmitReturn(w)

SpecRace == Init /\ [][NextRace]_vars

----------------------------------------------------------------------------
(* Specification of the materializer over arbitrary requests: the store
   starts with at most one request, under the name the controller test uses,
   with or without the label, with any subset of the three annotations, with
   no condition, an Approved one (status True or False) or a Denied one,
   with or without a certificate;
   and with at most one secret under the approval name of the policy the
   annotations point at, with or without the finalizer.  Reconcile is then
   called for that name any number of times. *)

TestCSRName == <<"test", "csr">>

TestPolicyName == <<"test", "policy">>

TestNamespace == <<"test", "namespace">>

\* the annotation maps of a request: any subset of the three keys
FixtureCSRAnnotations ==
    {[k \in keys |->
        IF k = AnnotationPolicyName THEN TestPolicyName
        ELSE IF k = AnnotationPolicyNamespace THEN TestNamespace
        ELSE <<"test-hash-123">>] :
      keys \in SUBSET {AnnotationPolicyName, AnnotationPolicyNamespace,
                       AnnotationApprovalHash}}

FixtureCSRs ==
    [ labels      : {<<>>, (LabelNetworkPolicyApproval :> "true")},
      annotations : FixtureCSRAnnotations,
      request     : {<<"test", "csr", "data">>},
      conditions  : {{}, {[type |-> "Approved", status |-> "True"]},
                         {[type |-> "Approved", status |-> "False"]},
                         {[type |-> "Denied", status |-> "True"]}},
      certificate : {"", "test-certificate-data"} ]

\* the secret that exists before the run: written from another request, with
\* the old or the new hash (in Data and in the annotation alike) and
\* certificate, with or without the finalizer
FixtureOldSecrets ==
    {[ type        |-> SecretTypeNetworkPolicyApproval,
       labels      |-> ("networkpolicy.webhook.io/approval" :> "true")
                       @@ ("networkpolicy.webhook.io/name" :> TestPolicyName),
       annotations |-> ("networkpolicy.webhook.io/csr-name" :> <<"old", "csr">>)
                       @@ ("networkpolicy.webhook.io/approval-hash" :> h)
                       @@ ("networkpolicy.webhook.io/np-name" :> TestPolicyName)
                       @@ ("networkpolicy.webhook.io/np-namespace" :> TestNamespace),
       finalizers  |-> f,
       deletionTimestamp |-> FALSE,
       data        |-> ("hash" :> h) @@ ("tls-crt" :> c)
                       @@ ("csr-name" :> <<"old", "csr">>) ] :
       h \in {<<"old-hash">>, <<"test-hash-123">>},
       c \in {"old-certificate-data", "test-certificate-data"},
       f \in {{}, {ApprovalProtectionFinalizer}}}

InitMaterialize ==
    /\ last = NoCall
    /\ adm = [w \in Workers |-> IdleWorker]
    /\ \/ csrs = <<>>
       \/ \E csr \in FixtureCSRs : csrs = (TestCSRName :> csr)
    /\ \/ secrets = <<>>
       \/ \E secret \in FixtureOldSecrets :
             secrets = (SecretKey(TestNamespace, TestPolicyName) :> secret)

NextMaterialize ==
    \/ Reconcile(TestCSRName)
    \/ ReconcileStopped(TestCSRName)

SpecMaterialize == InitMaterialize /\ [][NextMaterialize]_vars

----------------------------------------------------------------------------
(* Specification of the sweep over arbitrary store contents: the store starts
   with at most one secret under each policy's approval name, of the approval
   type or not, with or without the csr-name annotation, carrying any of the
   two finalizers, and with or without the request the annotation names.  The
   sweep is then called any number of times, and the request may be deleted. *)

FixtureSweepSecrets(namespace, name) ==
    [ type        : {SecretTypeNetworkPolicyApproval, "Opaque"},
      labels      : {("networkpolicy.webhook.io/approval" :> "true")
                     @@ ("networkpolicy.webhook.io/name" :> name)},
      annotations : {("networkpolicy.webhook.io/np-name" :> name),
                     ("networkpolicy.webhook.io/np-name" :> name)
                     @@ ("networkpolicy.webhook.io/csr-name" :> TestCSRName)},
      finalizers  : SUBSET {CleanupFinalizer, ApprovalProtectionFinalizer},
      deletionTimestamp : {FALSE},
      data        : {("hash" :> <<"test-hash-123">>)
                     @@ ("tls-crt" :> "test-certificate-data")
                     @@ ("csr-name" :> TestCSRName)} ]

InitSweep ==
    /\ last = NoCall
    /\ adm = [w \in Workers |-> IdleWorker]
    /\ \/ csrs = <<>>
       \/ csrs = (TestCSRName :>
                    [ labels      |-> (LabelNetworkPolicyApproval :> "true"),
                      annotations |-> <<>>,
                      request     |-> <<"test", "csr", "data">>,
                      conditions  |-> {},
                      certificate |-> "" ])
    /\ \E present \in SUBSET {<<ns, n>> : ns \in Namespaces, n \in PolicyNames} :
       \E fixture \in [present -> UNION {FixtureSweepSecrets(k[1], k[2]) : k \in present}] :
          /\ \A k \in present : fixture[k] \in FixtureSweepSecrets(k[1], k[2])
          /\ secrets = [key \in {SecretKey(k[1], k[2]) : k \in present} |->
                          LET k == CHOOSE k \in present : SecretKey(k[1], k[2]) = key
                          IN fixture[k]]

NextSweep ==
    \/ cleanupOrphanedSecrets
    \/ DeleteCSR(TestCSRName)

SpecSweep == InitSweep /\ [][NextSweep]_vars

----------------------------------------------------------------------------
(* Specification of the sweep under failing store calls, over the store
   contents of the sweep specification. *)

NextSweepFaults ==
    \/ \E listFails \in BOOLEAN :
       \E faults \in [{key \in DOMAIN secrets :
                          secrets[key].type = "networkpolicy.webhook.io/approval"}
                      -> Faults] :
          cleanupOrphanedSecretsWith(listFails, faults)
    \/ DeleteCSR(TestCSRName)

SpecSweepFaults == InitSweep /\ [][NextSweepFaults]_vars

----------------------------------------------------------------------------
(* Specification of the fingerprint: generateNetworkPolicyHash is applied to
   any two NetworkPolicy objects, which carry, besides name, namespace and
   spec, labels and a resource version. *)

HashNamespaces == {<<"ns1">>, <<"ns2">>}

\* the metadata of an object that is not part of NetworkPolicyData
PolicyMetadata ==
    { [labels |-> <<>>, resourceVersion |-> "1"],
      [labels |-> ("app" :> "web"), resourceVersion |-> "2"] }

PolicyObjects ==
    { [ name            |-> np.name,
        namespace       |-> ns,
        spec            |-> np.spec,
        labels          |-> md.labels,
        resourceVersion |-> md.resourceVersion ] :
      np \in Policies, ns \in HashNamespaces, md \in PolicyMetadata }

\* hash1 and hash2 of one object, and the hash of another one
HashPolicies(obj, other) ==
    /\ last' = Outcome("generateNetworkPolicyHash", <<obj, other>>, ErrNil, FALSE,
                       <<generateNetworkPolicyHash(obj),
                         generateNetworkPolicyHash(obj),
                         generateNetworkPolicyHash(other)>>)
    /\ UNCHANGED <<secrets, csrs, adm>>

NextHash == \E obj \in PolicyObjects, other \in PolicyObjects : HashPolicies(obj, other)

SpecHash == Init /\ [][NextHash]_vars

----------------------------------------------------------------------------
(* Specification of the materializer over several granted requests: the
   store starts with up to two requests, under any of two names, each
   labelled, approved and certified, each pointing by its annotations at one
   of two policies with one of two hashes.  Reconcile is called for the
   requests in any order, requests are deleted, and the sweep runs. *)

GrantedNames == {TestCSRName, <<"other", "csr">>}

GrantedCSRs ==
    { [ labels      |-> (LabelNetworkPolicyApproval :> "true"),
        annotations |-> (AnnotationPolicyName :> name)
                        @@ (AnnotationPolicyNamespace :> TestNamespace)
                        @@ (AnnotationApprovalHash :> hash),
        request     |-> <<"test", "csr", "data">>,
        conditions  |-> {[type |-> "Approved", status |-> "True"]},
        certificate |-> "test-certificate-data" ] :
      name \in {TestPolicyName, <<"other", "policy">>},
      hash \in {<<"test-hash-123">>, <<"different-hash">>} }

InitGranted ==
    /\ last = NoCall
    /\ adm = [w \in Workers |-> IdleWorker]
    /\ secrets = <<>>
    /\ \E present \in SUBSET GrantedNames :
          csrs \in [present -> GrantedCSRs]

NextGranted ==
    \/ \E name \in GrantedNames : Reconcile(name)
    \/ \E name \in GrantedNames : DeleteCSR(name)
    \/ cleanupOrphanedSecrets

SpecGranted == InitGranted /\ [][NextGranted]_vars

----------------------------------------------------------------------------
(* Specification of the running controller: the store starts with the
   requests the gate has created for some of the policies and no secret, and
   the manager dispatches Reconcile, beside the approver, the signer and
   deletions of requests.  Nothing in the program calls
   cleanupOrphanedSecrets, so it is not among the handlers; the admission
   hooks write no secret and are left out.  The work queue runs Reconcile for
   a request again and again as long as a run has something to do (watch
   events of the labelled request, and Requeue): Reconcile is weakly fair for
   every request name. *)

InitLoop ==
    /\ last = NoCall
    /\ adm = [w \in Workers |-> IdleWorker]
    /\ secrets = <<>>
    /\ \E present \in SUBSET Policies :
          /\ \A np \in present, other \in present :
                (np.name = other.name /\ np.namespace = other.namespace) => np = other
          /\ csrs = [name \in {ApprovalName(np.namespace, np.name) : np \in present} |->
                       LET np == CHOOSE np \in present :
                                    ApprovalName(np.namespace, np.name) = name
                       IN ApprovalCSR(np, generateNetworkPolicyHash(np))]

NextLoop ==
    \/ \E name \in RequestNames : Reconcile(name)
    \/ \E name \in RequestNames : ApproveCSR(name)
    \/ \E name \in RequestNames : IssueCertificate(name)
    \/ \E name \in RequestNames : DeleteCSR(name)

FairLoop == \A name \in RequestNames : WF_vars(Reconcile(name))

SpecLoop == InitLoop /\ [][NextLoop]_vars /\ FairLoop

----------------------------------------------------------------------------
(* Specification of one admission of an object: the API server sends the
   submitted NetworkPolicy to the defaulting webhook and then to the
   validating webhook.  The submitted objects carry labels and a resource
   version; their names and namespaces may contain '-', that is, have more
   than one token.  The store starts with at most one fixture secret and at
   most one request the gate has created. *)

\* NetworkPolicyCustomDefaulter.Default: the cast, a log line, return nil; no
\* field of the object is assigned
Default(obj) ==
    obj

\* the identities (namespace, name) of the submitted objects
AdmitIdentities ==
    { <<<<"ns1">>, <<"p1">>>>,
      <<<<"a">>, <<"b", "c">>>>,
      <<<<"a", "b">>, <<"c">>>> }

AdmitObjects ==
    { [ name            |-> id[2],
        namespace       |-> id[1],
        spec            |-> sp,
        labels          |-> md.labels,
        resourceVersion |-> md.resourceVersion ] :
      id \in AdmitIdentities, sp \in PolicySpecs, md \in PolicyMetadata }

\* the outcome of an admission: the object as submitted, the object as the
\* webhooks leave it, the validator's error and store calls
AdmissionOutcome(op, obj, np, err, calls) ==
    [op |-> op, arg |-> obj, object |-> np, err |-> err, requeue |-> FALSE,
     calls |-> calls, before |-> <<>>]

\* an admission whose validator writes the request again when it exists
Admit_RefreshRequest(op, obj) ==
    LET np       == Default(obj)
        hash     == generateNetworkPolicyHash(np)
        csrName  == ApprovalName(np.namespace, np.name)
        approved == checkForApprovedCertificate(np, hash)
    IN  /\ csrs' = IF approved THEN csrs
                   ELSE ClientPut(csrs, csrName, ApprovalCSR(np, hash))
        /\ last' = AdmissionOutcome(op, obj, np,
                       IF approved THEN ErrNil ELSE ErrNotApproved,
                       IF approved THEN <<"GetSecret">>
                       ELSE IF ClientGet(csrs, csrName)
                            THEN <<"GetSecret", "GetCSR", "UpdateCSR">>
                            ELSE <<"GetSecret", "GetCSR", "CreateCSR">>)
        /\ UNCHANGED <<secrets, adm>>

\* one create or update admission of obj, run to completion: Default, then
\* ValidateCreate / ValidateUpdate, that is validateNetworkPolicyApproval on
\* the object Default returned: hash, checkForApprovedCertificate (allow),
\* Get of the request np-approval-<namespace>-<name> (found: deny), or
\* createApprovalCSR and deny.  No call writes a secret, and the validator
\* assigns no field of the object.
Admit(op, obj) ==
    LET np       == Default(obj)
        hash     == generateNetworkPolicyHash(np)
        csrName  == ApprovalName(np.namespace, np.name)
        approved == checkForApprovedCertificate(np, hash)
        exists   == ClientGet(csrs, csrName)
    IN  /\ csrs' = IF approved \/ exists THEN csrs
                   ELSE ClientPut(csrs, csrName, ApprovalCSR(np, hash))
        /\ last' = AdmissionOutcome(op, obj, np,
                       IF approved THEN ErrNil ELSE ErrNotApproved,
                       IF approved THEN <<"GetSecret">>
                       ELSE IF exists THEN <<"GetSecret", "GetCSR">>
                       ELSE <<"GetSecret", "GetCSR", "CreateCSR">>)
        /\ UNCHANGED <<secrets, adm>>

\* the store before the admissions: no secret, or a fixture secret of one
\* identity that holds the keys the gate reads; no request, or the request the
\* gate created for an identity
InitAdmit ==
    /\ last = NoCall
    /\ adm = [w \in Workers |-> IdleWorker]
    /\ \/ secrets = <<>>
       \/ \E id \in AdmitIdentities :
          \E secret \in FixtureSecrets(id[1], id[2]) :
             /\ DOMAIN secret.data = {"hash", "tls.crt", "csr-name"}
             /\ secrets = (SecretKey(id[1], id[2]) :> secret)
    /\ \/ csrs = <<>>
       \/ \E id \in AdmitIdentities, sp \in PolicySpecs :
             LET np == [name |-> id[2], namespace |-> id[1], spec |-> sp] IN
             csrs = (ApprovalName(id[1], id[2]) :>
                        ApprovalCSR(np, generateNetworkPolicyHash(np)))

NextAdmit ==
    \/ \E obj \in AdmitObjects : Admit("ValidateCreate", obj)
    \/ \E obj \in AdmitObjects : Admit("ValidateUpdate", obj)

SpecAdmit == InitAdmit /\ [][NextAdmit]_vars

----------------------------------------------------------------------------
(* The store with optimistic concurrency.  Every stored secret carries a
   resourceVersion; Create and every Update that changes the object give it a
   version no reader holds; an Update whose object carries another version
   than the stored one is refused (Conflict).  Delete carries no precondition.
   Versions are compared for equality only, so the version given is the
   smallest one that is neither in the store nor in a worker's in-memory
   copy. *)

Reconcilers == {"r1", "r2"}

Sweeper == "sweep"

\* the versions of the stored secrets and of the copies the workers hold
VersionsInUse ==
    {secrets[k].resourceVersion : k \in DOMAIN secrets}
    \cup UNION {{adm[w].copies[k].resourceVersion : k \in DOMAIN adm[w].copies} :
                  w \in DOMAIN adm}

FreshVersion ==
    CHOOSE v \in 1..(Cardinality(VersionsInUse) + 1) :
        /\ v \notin VersionsInUse
        /\ \A u \in 1..(v - 1) : u \in VersionsInUse

WithVersion(obj, v) == [k \in DOMAIN obj \cup {"resourceVersion"} |->
                           IF k = "resourceVersion" THEN v ELSE obj[k]]

\* the result of a store call: the error, the store afterwards, and the
\* caller's in-memory object afterwards (the client writes the stored object
\* back into it)
StoreResult(err, store, obj) == [err |-> err, store |-> store, obj |-> obj]

\* CreateResource -> client.Create
StoreCreate(store, key, obj) ==
    IF ~ClientCreateOK(store, key)
    THEN StoreResult("AlreadyExists", store, obj)
    ELSE LET created == WithVersion(obj, FreshVersion)
         IN StoreResult(ErrNil, ClientPut(store, key, created), created)

\* an Update that does not look at the version
StoreUpdate_Unchecked(store, key, obj) ==
    IF ~ClientGet(store, key)
    THEN StoreResult("NotFound", store, obj)
    ELSE IF obj = store[key]
    THEN StoreResult(ErrNil, store, obj)
    ELSE LET updated == WithVersion(obj, FreshVersion)
         IN StoreResult(ErrNil, ClientUpdate(store, key, updated), updated)

\* UpdateResource -> client.Update: NotFound, Conflict on a version other than
\* the stored one, no write when nothing changes, otherwise the object is
\* replaced under a new version
StoreUpdate(store, key, obj) ==
    IF ~ClientGet(store, key)
    THEN StoreResult("NotFound", store, obj)
    ELSE IF store[key].resourceVersion # obj.resourceVersion
    THEN StoreResult("Conflict", store, obj)
    ELSE IF obj = store[key]
    THEN StoreResult(ErrNil, store, obj)
    ELSE LET updated == WithVersion(obj, FreshVersion)
         IN StoreResult(ErrNil, ClientUpdate(store, key, updated), updated)

\* DeleteResource -> client.Delete, by name and namespace: NotFound, removal,
\* or (finalizers left) the deletion timestamp under a new version
StoreDelete(store, key) ==
    IF ~ClientGet(store, key)
    THEN StoreResult("NotFound", store, <<>>)
    ELSE IF store[key].finalizers # {} /\ ~store[key].deletionTimestamp
    THEN StoreResult(ErrNil,
                     ClientPut(store, key,
                         WithVersion([store[key] EXCEPT !.deletionTimestamp = TRUE],
                                     FreshVersion)),
                     <<>>)
    ELSE StoreResult(ErrNil, ClientDelete(store, key), <<>>)

----------------------------------------------------------------------------
(* Reconcile, one store call at a time.  A worker of the controller holds the
   request it was given, the CSR it read, and its in-memory secret. *)

IdleReconciler ==
    [pc |-> "idle", req |-> <<>>, csr |-> <<>>, copies |-> <<>>,
     err |-> ErrNil, requeue |-> FALSE, path |-> "none"]

\* the worker returns err (and Requeue) from Reconcile
Returning(worker, err, requeue) ==
    [worker EXCEPT !.pc = "return", !.err = err, !.requeue = requeue]

\* the work queue hands req to the worker; GetResource of the CSR and the
\* early returns of Reconcile
ReconcileGetCSR(w, reqName) ==
    /\ adm[w].pc = "idle"
    /\ LET worker == [adm[w] EXCEPT !.req = reqName] IN
       adm' = [adm EXCEPT ![w] =
                 IF ~ClientGet(csrs, reqName) THEN Returning(worker, ErrNil, FALSE)
                 ELSE LET csr == csrs[reqName] IN
                      IF ~isNPApproval(csr) THEN Returning(worker, ErrNil, FALSE)
                      ELSE IF ~isApproved(csr) THEN Returning(worker, ErrNil, FALSE)
                      ELSE IF ~hasRequiredAnnotations(csr)
                      THEN Returning(worker, ErrNil, FALSE)
                      ELSE IF ~hasCertificate(csr) THEN Returning(worker, ErrNil, TRUE)
                      ELSE [worker EXCEPT !.pc = "getSecret", !.csr = csr]]
    /\ UNCHANGED <<secrets, csrs, last>>

\* the lookup of the secret taking a missing secret for an existing one
ReconcileGetSecret_NoCreate(w) ==
    /\ adm[w].pc = "getSecret"
    /\ LET key == secretNamespacedName(adm[w].csr, adm[w].req) IN
       adm' = [adm EXCEPT ![w] =
                 IF ClientGet(secrets, key)
                 THEN [@ EXCEPT !.pc = "update", !.path = "update",
                                !.copies = (key :> secrets[key])]
                 ELSE Returning(@, "NotFound", FALSE)]
    /\ UNCHANGED <<secrets, csrs, last>>

\* exists, err = r.GetResource(ctx, secretNamespacedName, secret)
ReconcileGetSecret(w) ==
    /\ adm[w].pc = "getSecret"
    /\ LET key == secretNamespacedName(adm[w].csr, adm[w].req) IN
       adm' = [adm EXCEPT ![w] =
                 IF ClientGet(secrets, key)
                 THEN [@ EXCEPT !.pc = "update", !.path = "update",
                                !.copies = (key :> secrets[key])]
                 ELSE [@ EXCEPT !.pc = "create", !.path = "create"]]
    /\ UNCHANGED <<secrets, csrs, last>>

\* r.CreateResource(ctx, newSecret); an error is returned
ReconcileCreate(w) ==
    /\ adm[w].pc = "create"
    /\ LET key    == secretNamespacedName(adm[w].csr, adm[w].req)
           result == StoreCreate(secrets, key, newSecret(adm[w].csr, adm[w].req))
       IN /\ secrets' = result.store
          /\ adm' = [adm EXCEPT ![w] =
                       IF result.err # ErrNil THEN Returning(@, result.err, FALSE)
                       ELSE [@ EXCEPT !.pc = "addFinalizer",
                                      !.copies = (key :> result.obj)]]
    /\ UNCHANGED <<csrs, last>>

\* the update path writing with an Update that is not version-checked
ReconcileUpdate_Unchecked(w) ==
    /\ adm[w].pc = "update"
    /\ LET key    == secretNamespacedName(adm[w].csr, adm[w].req)
           result == StoreUpdate_Unchecked(secrets, key,
                         WithData(adm[w].copies[key],
                                  secretData(adm[w].csr, adm[w].req)))
       IN /\ secrets' = result.store
          /\ adm' = [adm EXCEPT ![w] =
                       IF result.err # ErrNil THEN Returning(@, result.err, FALSE)
                       ELSE [@ EXCEPT !.pc = "addFinalizer",
                                      !.copies = (key :> result.obj)]]
    /\ UNCHANGED <<csrs, last>>

\* secret.Data = secretData; r.UpdateResource(ctx, ..., secret); an error is
\* returned
ReconcileUpdate(w) ==
    /\ adm[w].pc = "update"
    /\ LET key    == secretNamespacedName(adm[w].csr, adm[w].req)
           result == StoreUpdate(secrets, key,
                         WithData(adm[w].copies[key],
                                  secretData(adm[w].csr, adm[w].req)))
       IN /\ secrets' = result.store
          /\ adm' = [adm EXCEPT ![w] =
                       IF result.err # ErrNil THEN Returning(@, result.err, FALSE)
                       ELSE [@ EXCEPT !.pc = "addFinalizer",
                                      !.copies = (key :> result.obj)]]
    /\ UNCHANGED <<csrs, last>>

\* r.AddFinalizer(ctx, ..., secret, "networkpolicy.webhook.io/approval-protection"):
\* nothing when the in-memory secret contains it, otherwise an Update
ReconcileAddFinalizer(w) ==
    /\ adm[w].pc = "addFinalizer"
    /\ LET key  == secretNamespacedName(adm[w].csr, adm[w].req)
           copy == adm[w].copies[key]
       IN IF ApprovalProtectionFinalizer \in copy.finalizers
          THEN /\ UNCHANGED secrets
               /\ adm' = [adm EXCEPT ![w] = Returning(@, ErrNil, FALSE)]
          ELSE LET result == StoreUpdate(secrets, key,
                                 WithFinalizer(copy, ApprovalProtectionFinalizer))
               IN /\ secrets' = result.store
                  /\ adm' = [adm EXCEPT ![w] =
                               Returning([@ EXCEPT !.copies = (key :> result.obj)],
                                         result.err, FALSE)]
    /\ UNCHANGED <<csrs, last>>

\* Reconcile returns; the worker takes the next request.  `calls` names the
\* path the run took, `before` the worker
ReconcileReturn(w) ==
    /\ adm[w].pc = "return"
    /\ last' = [op |-> "Reconcile", arg |-> adm[w].req, err |-> adm[w].err,
                requeue |-> adm[w].requeue, calls |-> <<adm[w].path>>,
                before |-> <<w>>]
    /\ adm' = [adm EXCEPT ![w] = IdleReconciler]
    /\ UNCHANGED <<secrets, csrs>>

----------------------------------------------------------------------------
(* cleanupOrphanedSecrets, one store call at a time.  The sweeper holds the
   listed items, the keys it has not looked at yet, the key it works on, and
   the calls it has made per key. *)

IdleSweeper ==
    [pc |-> "idle", copies |-> <<>>, todo |-> {}, key |-> <<>>, calls |-> <<>>]

\* the sweeper goes on with the next item, having made `calls` for this one
Continue(sweeper, key, calls) ==
    [sweeper EXCEPT !.pc = "loop", !.todo = @ \ {key}, !.key = <<>>,
                    !.calls = (key :> calls) @@ @]

\* r.Client().List(ctx, secretList, MatchingFields{"type": ...})
SweepList ==
    /\ adm[Sweeper].pc = "idle"
    /\ LET listed == {key \in DOMAIN secrets :
                         secrets[key].type = "networkpolicy.webhook.io/approval"}
       IN adm' = [adm EXCEPT ![Sweeper] =
                    [pc |-> "loop", copies |-> [key \in listed |-> secrets[key]],
                     todo |-> listed, key |-> <<>>, calls |-> <<>>]]
    /\ UNCHANGED <<secrets, csrs, last>>

\* the head of the loop body: the csr-name annotation and GetResource of the
\* CSR; not found leads on to the finalizer and the delete
SweepGetCSR ==
    /\ adm[Sweeper].pc = "loop"
    /\ adm[Sweeper].todo # {}
    /\ LET key    == CHOOSE k \in adm[Sweeper].todo : TRUE
           secret == adm[Sweeper].copies[key]
       IN adm' = [adm EXCEPT ![Sweeper] =
                    IF AnnotationCSRName \notin DOMAIN secret.annotations
                    THEN Continue(@, key, <<>>)
                    ELSE IF ClientGet(csrs, secret.annotations[AnnotationCSRName])
                    THEN Continue(@, key, <<"GetCSR">>)
                    ELSE IF CleanupFinalizer \in secret.finalizers
                    THEN [@ EXCEPT !.pc = "removeFinalizer", !.key = key]
                    ELSE [@ EXCEPT !.pc = "delete", !.key = key]]
    /\ UNCHANGED <<secrets, csrs, last>>

\* r.RemoveFinalizer(ctx, ..., secret, "networkpolicy-approval-protection"):
\* an Update of the listed object; on an error the loop continues
SweepRemoveFinalizer ==
    /\ adm[Sweeper].pc = "removeFinalizer"
    /\ LET key    == adm[Sweeper].key
           secret == adm[Sweeper].copies[key]
           result == StoreUpdate(secrets, key,
                         [secret EXCEPT !.finalizers = @ \ {CleanupFinalizer}])
       IN /\ secrets' = result.store
          /\ adm' = [adm EXCEPT ![Sweeper] =
                       IF result.err # ErrNil
                       THEN Continue(@, key, <<"GetCSR", "UpdateSecret failed">>)
                       ELSE [@ EXCEPT !.pc = "delete",
                                      !.copies = (key :> result.obj) @@ @]]
    /\ UNCHANGED <<csrs, last>>

\* r.DeleteResource(ctx, secret); an error is logged
SweepDelete ==
    /\ adm[Sweeper].pc = "delete"
    /\ LET key    == adm[Sweeper].key
           result == StoreDelete(secrets, key)
       IN /\ secrets' = result.store
          /\ adm' = [adm EXCEPT ![Sweeper] =
                       Continue(@, key,
                                IF result.err # ErrNil
                                THEN <<"GetCSR", "DeleteSecret failed">>
                                ELSE <<"GetCSR", "DeleteSecret">>)]
    /\ UNCHANGED <<csrs, last>>

\* the loop is over: return nil
SweepReturn ==
    /\ adm[Sweeper].pc = "loop"
    /\ adm[Sweeper].todo = {}
    /\ last' = [op |-> "cleanupOrphanedSecrets", arg |-> adm[Sweeper].calls,
                err |-> ErrNil, requeue |-> FALSE, calls |-> <<"ListSecrets">>,
                before |-> <<>>]
    /\ adm' = [adm EXCEPT ![Sweeper] = IdleSweeper]
    /\ UNCHANGED <<secrets, csrs>>

----------------------------------------------------------------------------
(* Specification of the sweep racing with the materializer: one worker of the
   controller runs Reconcile for the request of one policy, a sweep runs, both
   one store call at a time, while the request is created by the gate,
   approved, certified, deleted and created again.  The work queue keeps
   giving the request to the worker (watch events, requeues, resync), so the
   steps of Reconcile are weakly fair; nothing is assumed about the sweep. *)

RacePolicies == {np \in Policies : np.name = <<"p1">> /\ np.namespace = <<"ns1">>}

RaceRequest == ApprovalName(<<"ns1">>, <<"p1">>)

\* createApprovalCSR, called by an admission of np that found neither a valid
\* secret nor a request
CreateCSR(np) ==
    /\ ~ClientGet(csrs, ApprovalName(np.namespace, np.name))
    /\ csrs' = ClientPut(csrs, ApprovalName(np.namespace, np.name),
                         ApprovalCSR(np, generateNetworkPolicyHash(np)))
    /\ last' = External
    /\ UNCHANGED <<secrets, adm>>

\* the token the store may hold at the start: left by an earlier request of
\* the policy, carrying the finalizer the sweep clears
RaceFixtureSecret ==
    [ type        |-> SecretTypeNetworkPolicyApproval,
      labels      |-> ("networkpolicy.webhook.io/approval" :> "true")
                      @@ ("networkpolicy.webhook.io/name" :> <<"p1">>),
      annotations |-> ("networkpolicy.webhook.io/csr-name" :> RaceRequest)
                      @@ ("networkpolicy.webhook.io/approval-hash" :> <<"old-hash">>)
                      @@ ("networkpolicy.webhook.io/np-name" :> <<"p1">>)
                      @@ ("networkpolicy.webhook.io/np-namespace" :> <<"ns1">>),
      finalizers  |-> {CleanupFinalizer},
      deletionTimestamp |-> FALSE,
      data        |-> ("hash" :> <<"old-hash">>) @@ ("tls-crt" :> "old-certificate-data")
                      @@ ("csr-name" :> RaceRequest),
      resourceVersion |-> 1 ]

InitSweepRace ==
    /\ \/ secrets = <<>>
       \/ secrets = (SecretKey(<<"ns1">>, <<"p1">>) :> RaceFixtureSecret)
    /\ csrs = <<>>
    /\ last = NoCall
    /\ adm = ("r1" :> IdleReconciler) @@ (Sweeper :> IdleSweeper)

ReconcileStep(w) ==
    \/ \E name \in {RaceRequest} : ReconcileGetCSR(w, name)
    \/ ReconcileGetSecret(w)
    \/ ReconcileCreate(w)
    \/ ReconcileUpdate(w)
    \/ ReconcileAddFinalizer(w)
    \/ ReconcileReturn(w)

SweepStep ==
    \/ SweepList
    \/ SweepGetCSR
    \/ SweepRemoveFinalizer
    \/ SweepDelete
    \/ SweepReturn

NextSweepRace ==
    \/ ReconcileStep("r1")
    \/ SweepStep
    \/ \E np \in RacePolicies : CreateCSR(np)
    \/ ApproveCSR(RaceRequest)
    \/ IssueCertificate(RaceRequest)
    \/ DeleteCSR(RaceRequest)

FairSweepRace == WF_vars(ReconcileStep("r1"))

SpecSweepRace == InitSweepRace /\ [][NextSweepRace]_vars /\ FairSweepRace

----------------------------------------------------------------------------
(* Specification of concurrent materialization: two workers of the controller
   run Reconcile for the same request, one store call at a time.  The request
   is the one the gate created for a policy, granted and certified, and does
   not change; the store holds no token, or the token of an earlier grant of
   the policy, with or without the materializer's finalizer. *)

\* the request of np, approved and certified
GrantedCSR(np) ==
    [ApprovalCSR(np, generateNetworkPolicyHash(np)) EXCEPT
        !.conditions = {[type |-> "Approved", status |-> "True"]},
        !.certificate = "crt"]

InitReconcileRace ==
    /\ \/ secrets = <<>>
       \/ \E f \in {{}, {ApprovalProtectionFinalizer}} :
             secrets = (SecretKey(<<"ns1">>, <<"p1">>) :>
                           [RaceFixtureSecret EXCEPT !.finalizers = f])
    /\ \E np \in RacePolicies : csrs = (RaceRequest :> GrantedCSR(np))
    /\ last = NoCall
    /\ adm = [w \in Reconcilers |-> IdleReconciler]

NextReconcileRace ==
    \/ ReconcileStep("r1")
    \/ ReconcileStep("r2")

SpecReconcileRace == InitReconcileRace /\ [][NextReconcileRace]_vars

----------------------------------------------------------------------------
(* Vocabulary of the properties *)

IsGatedReview(l) == l.op \in {"ValidateCreate", "ValidateUpdate"}

TokenKey(np) == <<np.namespace, <<"np", "approval">> \o np.namespace \o np.name>>

RequestName(np) == <<"np", "approval">> \o np.namespace \o np.name

Fingerprint(np) == <<"sha256", np.name, np.namespace, np.spec>>

HasData(secret, k) == k \in DOMAIN secret.data

\* csr carries the annotations that point at np's identity
AnnotatedFor(csr, np) ==
    /\ "networkpolicy.webhook.io/name" \in DOMAIN csr.annotations
    /\ "networkpolicy.webhook.io/namespace" \in DOMAIN csr.annotations
    /\ csr.annotations["networkpolicy.webhook.io/name"] = np.name
    /\ csr.annotations["networkpolicy.webhook.io/namespace"] = np.namespace

\* the requests of store C that belong to np's identity, by name or by annotation
RequestsFor(C, np) ==
    {n \in DOMAIN C : n = RequestName(np) \/ AnnotatedFor(C[n], np)}

IsGranted(csr) == \E c \in csr.conditions : c.type = "Approved" /\ c.status = "True"

----------------------------------------------------------------------------
(* Properties *)

\* C1 (gate-then-grant-then-allow): when an update review of policy P has just
\* run while the request the gate created for P is granted with a certificate
\* and the materializer has written P's token from it (stored hash equal to
\* P's fingerprint, guard attached), the review allows.
C1_GateGrantAllow ==
    last.op = "ValidateUpdate" =>
        LET np == last.arg
            R  == RequestName(np)
        IN  ( /\ R \in DOMAIN csrs
              /\ csrs[R].request = R
              /\ AnnotatedFor(csrs[R], np)
              /\ csrs[R].annotations["networkpolicy.webhook.io/approval-hash"] = Fingerprint(np)
              /\ IsGranted(csrs[R])
              /\ csrs[R].certificate # ""
              /\ TokenKey(np) \in DOMAIN secrets
              /\ HasData(secrets[TokenKey(np)], "hash")
              /\ secrets[TokenKey(np)].data["hash"] = Fingerprint(np)
              /\ secrets[TokenKey(np)].data["csr-name"] = R
              /\ "networkpolicy.webhook.io/approval-protection"
                     \in secrets[TokenKey(np)].finalizers )
            => last.err = "nil"

\* C2: a create or update review allows whenever the policy's namespace holds
\* the secret np-approval-<namespace>-<name> of the approval type whose Data
\* "hash" is the policy's fingerprint and whose Data "tls-crt" is non-empty.
C2_AllowsStoredApproval ==
    IsGatedReview(last) =>
        LET np == last.arg IN
        ( /\ TokenKey(np) \in DOMAIN secrets
          /\ secrets[TokenKey(np)].type = "networkpolicy.webhook.io/approval"
          /\ HasData(secrets[TokenKey(np)], "hash")
          /\ secrets[TokenKey(np)].data["hash"] = Fingerprint(np)
          /\ HasData(secrets[TokenKey(np)], "tls-crt")
          /\ secrets[TokenKey(np)].data["tls-crt"] # "" )
        => last.err = "nil"

\* the token state in which the gate allows: present, approval type, stored
\* hash equal to the candidate fingerprint, and the certificate bytes the gate
\* reads (Data "tls.crt") non-empty
GateTokenValid(np) ==
    /\ TokenKey(np) \in DOMAIN secrets
    /\ secrets[TokenKey(np)].type = "networkpolicy.webhook.io/approval"
    /\ HasData(secrets[TokenKey(np)], "hash")
    /\ secrets[TokenKey(np)].data["hash"] = Fingerprint(np)
    /\ HasData(secrets[TokenKey(np)], "tls.crt")
    /\ secrets[TokenKey(np)].data["tls.crt"] # ""

C4_DenyCreatesOneRequest ==
    [][ ( /\ last'.op = "ValidateCreate"
          /\ TokenKey(last'.arg) \notin DOMAIN secrets
          /\ RequestsFor(csrs, last'.arg) = {} )
        => LET np == last'.arg
               R  == RequestName(np)
           IN  /\ last'.err = "NetworkPolicy has not been approved yet"
               /\ RequestsFor(csrs', np) = {R}
               /\ "networkpolicy.webhook.io/approval" \in DOMAIN csrs'[R].labels
               /\ AnnotatedFor(csrs'[R], np)
               /\ "networkpolicy.webhook.io/approval-hash" \in DOMAIN csrs'[R].annotations
               /\ csrs'[R].annotations["networkpolicy.webhook.io/approval-hash"]
                      = Fingerprint(np)
      ]_vars

C4_Witness ==
    /\ last.op = "ValidateCreate"
    /\ last.err = "NetworkPolicy has not been approved yet"
    /\ last.calls = <<"GetSecret", "GetCSR", "CreateCSR">>
    /\ TokenKey(last.arg) \notin DOMAIN secrets
    /\ RequestsFor(csrs, last.arg) = {RequestName(last.arg)}

\* C5 (drift denies): an update review of content whose fingerprint differs
\* from the hash stored in the existing token denies with the not-approved
\* message, and the token is still in the store.
C5_DriftDenies ==
    ( /\ last.op = "ValidateUpdate"
      /\ TokenKey(last.arg) \in DOMAIN secrets
      /\ HasData(secrets[TokenKey(last.arg)], "hash")
      /\ secrets[TokenKey(last.arg)].data["hash"] # Fingerprint(last.arg) )
    => last.err = "NetworkPolicy has not been approved yet"

C5_Witness ==
    /\ last.op = "ValidateUpdate"
    /\ TokenKey(last.arg) \in DOMAIN secrets
    /\ secrets[TokenKey(last.arg)].type = "networkpolicy.webhook.io/approval"
    /\ HasData(secrets[TokenKey(last.arg)], "hash")
    /\ secrets[TokenKey(last.arg)].data["hash"] # Fingerprint(last.arg)
    /\ secrets[TokenKey(last.arg)].data["hash"] # <<"different-hash">>
    /\ HasData(secrets[TokenKey(last.arg)], "tls.crt")
    /\ secrets[TokenKey(last.arg)].data["tls.crt"] # ""
    /\ last.err = "NetworkPolicy has not been approved yet"

\* C6: after P was approved through its request (the materializer wrote P's
\* token from it) and P's content changed, the denied update review leaves a
\* request in the store whose fingerprint annotation is the new fingerprint.
C6_DriftLeavesRequestForNewFingerprint ==
    ( /\ last.op = "ValidateUpdate"
      /\ last.err = "NetworkPolicy has not been approved yet"
      /\ TokenKey(last.arg) \in DOMAIN secrets
      /\ "networkpolicy.webhook.io/approval-protection"
             \in secrets[TokenKey(last.arg)].finalizers
      /\ secrets[TokenKey(last.arg)].data["hash"] # Fingerprint(last.arg) )
    => \E n \in RequestsFor(csrs, last.arg) :
          /\ "networkpolicy.webhook.io/approval-hash" \in DOMAIN csrs[n].annotations
          /\ csrs[n].annotations["networkpolicy.webhook.io/approval-hash"]
                 = Fingerprint(last.arg)

\* C7: a delete review allows in every store state and makes no store call:
\* it reads nothing and leaves secrets and requests as they were.
C7_DeleteAlwaysAllowed ==
    [][ last'.op = "ValidateDelete"
        => /\ last'.err = "nil"
           /\ last'.calls = <<>>
           /\ secrets' = secrets
           /\ csrs' = csrs
      ]_vars

C7_Witness ==
    /\ last.op = "ValidateDelete"
    /\ last.err = "nil"
    /\ TokenKey(last.arg) \in DOMAIN secrets
    /\ HasData(secrets[TokenKey(last.arg)], "hash")
    /\ secrets[TokenKey(last.arg)].data["hash"] # Fingerprint(last.arg)
    /\ RequestsFor(csrs, last.arg) = {}

\* C8 (idempotent admission): a create or update review that runs right after
\* a create or update review of the same policy, with no other change to the
\* store in between, returns the same allow/deny result as that one.
C8_IdempotentAdmission ==
    [][ ( /\ IsGatedReview(last)
          /\ IsGatedReview(last')
          /\ last'.arg = last.arg )
        => ((last'.err = "nil") <=> (last.err = "nil"))
      ]_vars

\* the second of two reviews of the same policy, the first of which created
\* the request and the second of which found it
C8_Witness ==
    /\ IsGatedReview(last)
    /\ last.before = <<"GetSecret", "GetCSR", "CreateCSR">>
    /\ last.calls = <<"GetSecret", "GetCSR">>
    /\ last.err = "NetworkPolicy has not been approved yet"

\* C9 (no duplicate requests under race): once two admission workers have both
\* returned from reviews of the same policy identity, exactly one request for
\* that identity exists.
C9_OneRequestAfterRace ==
    \A w1, w2 \in Workers :
        ( /\ w1 # w2
          /\ adm[w1].pc = "done"
          /\ adm[w2].pc = "done"
          /\ adm[w1].np.name = adm[w2].np.name
          /\ adm[w1].np.namespace = adm[w2].np.namespace )
        => Cardinality(RequestsFor(csrs, adm[w1].np)) = 1

\* both workers went past the request lookup and called Create; one lost
C9_Witness ==
    \E w1, w2 \in Workers :
        /\ w1 # w2
        /\ adm[w1].pc = "done"
        /\ adm[w2].pc = "done"
        /\ adm[w1].np.name = adm[w2].np.name
        /\ adm[w1].np.namespace = adm[w2].np.namespace
        /\ adm[w1].err = "NetworkPolicy has not been approved yet"
        /\ adm[w2].createErr = "AlreadyExists"

\* C10: the worker whose Create was rejected as already existing returns the
\* not-approved denial, as the winner does.
C10_LoserDeniesAsNotApproved ==
    \A w \in Workers :
        (adm[w].pc = "done" /\ adm[w].createErr = "AlreadyExists")
        => adm[w].err = "NetworkPolicy has not been approved yet"

----------------------------------------------------------------------------
(* Properties of the grant materializer *)

HasLabel(csr) == "networkpolicy.webhook.io/approval" \in DOMAIN csr.labels

HasApprovedCondition(csr) == \E c \in csr.conditions : c.type = "Approved"

HasAllAnnotations(csr) ==
    {"networkpolicy.webhook.io/name", "networkpolicy.webhook.io/namespace",
     "networkpolicy.webhook.io/approval-hash"} \subseteq DOMAIN csr.annotations

\* the request is one the materializer writes a token for
Materializable(csr) ==
    /\ HasLabel(csr)
    /\ HasApprovedCondition(csr)
    /\ HasAllAnnotations(csr)
    /\ csr.certificate # ""

\* the key of the token of the policy the request's annotations point at
TokenKeyOf(csr) ==
    TokenKey([name      |-> csr.annotations["networkpolicy.webhook.io/name"],
              namespace |-> csr.annotations["networkpolicy.webhook.io/namespace"]])

\* a complete run of Reconcile for request n has just returned
Reconciled(l, n) == l.op = "Reconcile" /\ l.arg = n

Guard == "networkpolicy.webhook.io/approval-protection"

\* the token a single complete run writes for request n when none exists
MaterializedToken(csr, n) ==
    [ type        |-> "networkpolicy.webhook.io/approval",
      labels      |-> ("networkpolicy.webhook.io/approval" :> "true")
                      @@ ("networkpolicy.webhook.io/name"
                            :> csr.annotations["networkpolicy.webhook.io/name"]),
      annotations |-> ("networkpolicy.webhook.io/csr-name" :> n)
                      @@ ("networkpolicy.webhook.io/approval-hash"
                            :> csr.annotations["networkpolicy.webhook.io/approval-hash"])
                      @@ ("networkpolicy.webhook.io/np-name"
                            :> csr.annotations["networkpolicy.webhook.io/name"])
                      @@ ("networkpolicy.webhook.io/np-namespace"
                            :> csr.annotations["networkpolicy.webhook.io/namespace"]),
      finalizers  |-> {Guard},
      deletionTimestamp |-> FALSE,
      data        |-> ("hash" :> csr.annotations["networkpolicy.webhook.io/approval-hash"])
                      @@ ("tls-crt" :> csr.certificate)
                      @@ ("csr-name" :> n) ]

\* every token other than the one under key is what it was
OthersUnchanged(key) ==
    /\ DOMAIN secrets' \ {key} = DOMAIN secrets \ {key}
    /\ \A k \in DOMAIN secrets \ {key} : secrets'[k] = secrets[k]

\* C11 (create path): a complete run of Reconcile for a labelled request with
\* an Approved condition, the three annotations and a certificate, while no
\* token exists for the identity, puts a token under np-approval-<ns>-<name>
\* in the policy's namespace: approval type, stored hash equal to the
\* request's hash annotation, artifact equal to the request's certificate,
\* cross-references to the request's name and the policy's identity, guard
\* attached; it returns no error and no requeue, and writes nothing else.
C11_CreatesToken ==
    [][\A n \in DOMAIN csrs :
          ( /\ Reconciled(last', n)
            /\ Materializable(csrs[n])
            /\ TokenKeyOf(csrs[n]) \notin DOMAIN secrets )
          => LET key == TokenKeyOf(csrs[n])
                 ann == csrs[n].annotations
             IN /\ key \in DOMAIN secrets'
                /\ secrets'[key].type = "networkpolicy.webhook.io/approval"
                /\ secrets'[key].data["hash"] = ann["networkpolicy.webhook.io/approval-hash"]
                /\ secrets'[key].data["tls-crt"] = csrs[n].certificate
                /\ secrets'[key].data["csr-name"] = n
                /\ secrets'[key].annotations["networkpolicy.webhook.io/csr-name"] = n
                /\ secrets'[key].annotations["networkpolicy.webhook.io/np-name"]
                      = ann["networkpolicy.webhook.io/name"]
                /\ secrets'[key].annotations["networkpolicy.webhook.io/np-namespace"]
                      = ann["networkpolicy.webhook.io/namespace"]
                /\ Guard \in secrets'[key].finalizers
                /\ OthersUnchanged(key)
                /\ csrs' = csrs
                /\ last'.err = "nil" /\ ~last'.requeue
      ]_vars

\* a complete run has created the token of a materializable request
C11_Witness ==
    /\ last.op = "Reconcile"
    /\ last.calls = <<"GetCSR", "GetSecret", "CreateSecret", "UpdateSecret">>
    /\ last.before = <<>>
    /\ last.arg \in DOMAIN csrs
    /\ Materializable(csrs[last.arg])
    /\ TokenKeyOf(csrs[last.arg]) \in DOMAIN secrets
    /\ secrets[TokenKeyOf(csrs[last.arg])] = MaterializedToken(csrs[last.arg], last.arg)

\* C12 (update path): a complete run of Reconcile for a granted request with
\* a certificate, while a token for the identity exists (with a different
\* stored hash or artifact, or the same), leaves the token's stored hash and
\* artifact equal to the request's hash annotation and certificate, and leaves
\* the token with the guard, whether or not it carried the guard before; its
\* type, labels and annotations stay, and no error is returned.
C12_UpdatesToken ==
    [][\A n \in DOMAIN csrs :
          ( /\ Reconciled(last', n)
            /\ Materializable(csrs[n])
            /\ TokenKeyOf(csrs[n]) \in DOMAIN secrets )
          => LET key == TokenKeyOf(csrs[n])
             IN /\ key \in DOMAIN secrets'
                /\ secrets'[key].data["hash"]
                      = csrs[n].annotations["networkpolicy.webhook.io/approval-hash"]
                /\ secrets'[key].data["tls-crt"] = csrs[n].certificate
                /\ Guard \in secrets'[key].finalizers
                /\ secrets[key].finalizers \subseteq secrets'[key].finalizers
                /\ secrets'[key].type = secrets[key].type
                /\ secrets'[key].labels = secrets[key].labels
                /\ secrets'[key].annotations = secrets[key].annotations
                /\ OthersUnchanged(key)
                /\ last'.err = "nil" /\ ~last'.requeue
      ]_vars

\* the first run for the request has overwritten a token that carried another
\* hash (its annotation still shows it) and no guard: the guard was added by a
\* second update
C12_Witness ==
    /\ last.op = "Reconcile"
    /\ last.calls = <<"GetCSR", "GetSecret", "UpdateSecret", "UpdateSecret">>
    /\ last.before = <<>>
    /\ last.arg \in DOMAIN csrs
    /\ Materializable(csrs[last.arg])
    /\ LET token == secrets[TokenKeyOf(csrs[last.arg])]
       IN /\ token.annotations["networkpolicy.webhook.io/approval-hash"] # token.data["hash"]
          /\ token.data["hash"]
                = csrs[last.arg].annotations["networkpolicy.webhook.io/approval-hash"]
          /\ token.data["tls-crt"] = csrs[last.arg].certificate
          /\ Guard \in token.finalizers

\* C13 (idempotent materialization): for an unchanged request, a complete run
\* of Reconcile that follows a complete run for the same request changes no
\* token and returns the same result; and a complete run that follows a run
\* that stopped between creating the token and attaching its guard leaves
\* exactly the token a single complete run writes (type, hash, artifact,
\* cross-references, guard).
C13_Idempotent ==
    [][\A n \in DOMAIN csrs :
          /\ (Reconciled(last, n) /\ Reconciled(last', n))
                => /\ secrets' = secrets
                   /\ last'.err = last.err
                   /\ last'.requeue = last.requeue
          /\ (last.op = "ReconcileStopped" /\ last.arg = n /\ Reconciled(last', n))
                => /\ TokenKeyOf(csrs[n]) \in DOMAIN secrets'
                   /\ secrets'[TokenKeyOf(csrs[n])] = MaterializedToken(csrs[n], n)
                   /\ OthersUnchanged(TokenKeyOf(csrs[n]))
                   /\ last'.err = "nil" /\ ~last'.requeue
      ]_vars

\* a complete run has followed a run that stopped after creating the token
C13_Witness ==
    /\ last.op = "Reconcile"
    /\ last.before = <<"GetCSR", "GetSecret", "CreateSecret">>
    /\ last.calls = <<"GetCSR", "GetSecret", "UpdateSecret", "UpdateSecret">>
    /\ last.arg \in DOMAIN csrs
    /\ secrets[TokenKeyOf(csrs[last.arg])] = MaterializedToken(csrs[last.arg], last.arg)

\* C14 (not granted, nothing happens): a complete run of Reconcile for a
\* labelled request that has no Approved condition creates no token, changes
\* no token and no request, and returns no error and no requeue.
C14_UnapprovedNoEffect ==
    [][\A n \in DOMAIN csrs :
          ( /\ Reconciled(last', n)
            /\ HasLabel(csrs[n])
            /\ ~HasApprovedCondition(csrs[n]) )
          => /\ secrets' = secrets
             /\ csrs' = csrs
             /\ last'.err = "nil" /\ ~last'.requeue
      ]_vars

\* Reconcile has run for a labelled, fully annotated request with a
\* certificate and no Approved condition, and there is no token
C14_Witness ==
    /\ last.op = "Reconcile"
    /\ last.before = <<>>
    /\ last.arg \in DOMAIN csrs
    /\ HasLabel(csrs[last.arg])
    /\ ~HasApprovedCondition(csrs[last.arg])
    /\ HasAllAnnotations(csrs[last.arg])
    /\ csrs[last.arg].certificate # ""
    /\ secrets = <<>>
    /\ last.err = "nil" /\ ~last.requeue

\* C15 (absent or unlabelled request): a complete run of Reconcile for a name
\* that is not in the store, or for a request without the approval label (even
\* one with an Approved condition and a certificate), leaves every token and
\* every request unchanged and returns no error and no requeue.
C15_AbsentOrUnlabelledNoEffect ==
    [][\A n \in {TestCSRName} \cup DOMAIN csrs \cup
                 {RequestName(np) : np \in Policies} :
          ( /\ Reconciled(last', n)
            /\ (n \notin DOMAIN csrs \/ ~HasLabel(csrs[n])) )
          => /\ secrets' = secrets
             /\ csrs' = csrs
             /\ last'.err = "nil" /\ ~last'.requeue
      ]_vars

\* Reconcile has run for an unlabelled request that has an Approved condition,
\* the three annotations and a certificate, and there is no token
C15_Witness ==
    /\ last.op = "Reconcile"
    /\ last.before = <<>>
    /\ last.arg \in DOMAIN csrs
    /\ ~HasLabel(csrs[last.arg])
    /\ HasApprovedCondition(csrs[last.arg])
    /\ HasAllAnnotations(csrs[last.arg])
    /\ csrs[last.arg].certificate # ""
    /\ secrets = <<>>
    /\ last.err = "nil" /\ ~last.requeue

\* C16 (granted but artifact not ready): a complete run of Reconcile for a
\* labelled request with an Approved condition and the three annotations whose
\* certificate is empty returns no error, asks for a requeue, and creates or
\* changes no token.
C16_NoCertificateRequeues ==
    [][\A n \in DOMAIN csrs :
          ( /\ Reconciled(last', n)
            /\ HasLabel(csrs[n])
            /\ HasApprovedCondition(csrs[n])
            /\ HasAllAnnotations(csrs[n])
            /\ csrs[n].certificate = "" )
          => /\ secrets' = secrets
             /\ csrs' = csrs
             /\ last'.err = "nil" /\ last'.requeue
      ]_vars

\* Reconcile has asked for a requeue for an approved, annotated request
\* without a certificate, and there is no token
C16_Witness ==
    /\ last.op = "Reconcile"
    /\ last.requeue
    /\ last.err = "nil"
    /\ last.arg \in DOMAIN csrs
    /\ HasLabel(csrs[last.arg])
    /\ HasApprovedCondition(csrs[last.arg])
    /\ HasAllAnnotations(csrs[last.arg])
    /\ csrs[last.arg].certificate = ""
    /\ secrets = <<>>

\* C17 (malformed request is a permanent error): a complete run of Reconcile
\* for a labelled request with an Approved condition that lacks one of the
\* three annotations returns an error, asks for no requeue, and writes no
\* token.
C17_MissingAnnotationIsError ==
    [][\A n \in DOMAIN csrs :
          ( /\ Reconciled(last', n)
            /\ HasLabel(csrs[n])
            /\ HasApprovedCondition(csrs[n])
            /\ ~HasAllAnnotations(csrs[n]) )
          => /\ last'.err # "nil"
             /\ ~last'.requeue
             /\ secrets' = secrets
      ]_vars

----------------------------------------------------------------------------
(* Properties of the orphan sweep *)

\* the sweep has just returned
Swept(l) == l.op = "cleanupOrphanedSecrets"

\* the token is of the approval type and cross-references a request that is
\* not in the request store C
IsOrphan(token, C) ==
    /\ token.type = "networkpolicy.webhook.io/approval"
    /\ "networkpolicy.webhook.io/csr-name" \in DOMAIN token.annotations
    /\ token.annotations["networkpolicy.webhook.io/csr-name"] \notin DOMAIN C

\* the guard the sweep clears
SweepGuard == "networkpolicy-approval-protection"

C19_SweepRemovesMaterializedOrphan ==
    Swept(last) =>
        \A key \in DOMAIN secrets :
            ~(IsOrphan(secrets[key], csrs) /\ Guard \in secrets[key].finalizers)

\* C20 (guard before delete): no delete call is issued for a token whose
\* persisted state carries a protective guard.  The store marks an object
\* with a deletion timestamp, and keeps it, exactly when a delete call
\* reaches it while it carries a finalizer; so no token in the store has both
\* a deletion timestamp and a protective guard.
C20_NoDeleteWhileGuarded ==
    \A key \in DOMAIN secrets :
        secrets[key].deletionTimestamp =>
            secrets[key].finalizers \cap {Guard, SweepGuard} = {}

----------------------------------------------------------------------------
(* Properties of the sweep under failing store calls *)

\* the sweep made the calls cs for the token under key
SweptWith(l, key, cs) ==
    /\ l.op = "cleanupOrphanedSecrets"
    /\ key \in DOMAIN l.arg
    /\ l.arg[key] = cs

\* C21 (partial failures self-heal): when a sweep persists the removal of the
\* guard of an orphaned token and its delete call fails, the token stays in
\* the store without the guard; and the sweep that follows, with the request
\* still absent and its List and lookup succeeding, issues the delete again
\* without another update, and the token is removed when that delete succeeds.
C21_SweepSelfHeals ==
    [][\A key \in DOMAIN secrets :
          /\ ( /\ SweptWith(last', key, <<"GetCSR", "UpdateSecret", "DeleteSecret failed">>)
               /\ secrets[key].finalizers = {SweepGuard} )
             => /\ key \in DOMAIN secrets'
                /\ secrets'[key].finalizers = {}
                /\ secrets'[key].data = secrets[key].data
          /\ ( /\ SweptWith(last, key, <<"GetCSR", "UpdateSecret", "DeleteSecret failed">>)
               /\ secrets[key].finalizers = {}
               /\ IsOrphan(secrets[key], csrs)
               /\ Swept(last') /\ last'.err = "nil"
               /\ last'.arg[key] # <<"GetCSR failed">> )
             => /\ last'.arg[key] \in {<<"GetCSR", "DeleteSecret">>,
                                       <<"GetCSR", "DeleteSecret failed">>}
                /\ last'.arg[key] = <<"GetCSR", "DeleteSecret">>
                      => key \notin DOMAIN secrets'
      ]_vars

\* a sweep has deleted a token whose guard the sweep before it had cleared
\* and whose delete had failed then
C21_Witness ==
    /\ Swept(last)
    /\ \E key \in DOMAIN last.before :
          /\ last.before[key] = <<"GetCSR", "UpdateSecret", "DeleteSecret failed">>
          /\ key \in DOMAIN last.arg
          /\ last.arg[key] = <<"GetCSR", "DeleteSecret">>
          /\ key \notin DOMAIN secrets

\* the calls a sweep makes for an orphan when none of them fails
CleanCalls(token) ==
    IF SweepGuard \in token.finalizers
    THEN <<"GetCSR", "UpdateSecret", "DeleteSecret">>
    ELSE <<"GetCSR", "DeleteSecret">>

\* C22 (failures are isolated per token): when the lookup, the guard removal
\* or the delete fails for one token, the same sweep returns no error and
\* still processes every other listed token: every other orphan gets its
\* calls and, carrying no guard other than the one the sweep clears, is
\* removed; the token whose call failed stays in the store.
C22_SweepFailuresIsolated ==
    [][(Swept(last') /\ last'.calls = <<"ListSecrets">>) =>
          /\ last'.err = "nil"
          /\ \A key \in DOMAIN secrets :
                secrets[key].type = "networkpolicy.webhook.io/approval"
                => key \in DOMAIN last'.arg
          /\ \A key \in DOMAIN last'.arg :
                /\ IsOrphan(secrets[key], csrs)
                    => \/ last'.arg[key] = CleanCalls(secrets[key])
                       \/ /\ last'.arg[key] \in
                                {<<"GetCSR failed">>, <<"GetCSR", "UpdateSecret failed">>,
                                 <<"GetCSR", "UpdateSecret", "DeleteSecret failed">>,
                                 <<"GetCSR", "DeleteSecret failed">>}
                          /\ key \in DOMAIN secrets'
                /\ ( /\ IsOrphan(secrets[key], csrs)
                     /\ last'.arg[key] = CleanCalls(secrets[key])
                     /\ secrets[key].finalizers \subseteq {SweepGuard} )
                    => key \notin DOMAIN secrets'
      ]_vars

\* a sweep in which a call failed for one orphan, which is still in the
\* store, has removed another orphan
C22_Witness ==
    /\ Swept(last)
    /\ last.err = "nil"
    /\ \E failed \in DOMAIN last.arg, removed \in DOMAIN last.arg :
          /\ failed # removed
          /\ last.arg[failed] \in
                {<<"GetCSR failed">>, <<"GetCSR", "UpdateSecret failed">>,
                 <<"GetCSR", "UpdateSecret", "DeleteSecret failed">>,
                 <<"GetCSR", "DeleteSecret failed">>}
          /\ failed \in DOMAIN secrets
          /\ last.arg[removed] = <<"GetCSR", "UpdateSecret", "DeleteSecret">>
          /\ removed \notin DOMAIN secrets

----------------------------------------------------------------------------
(* Properties of the fingerprint *)

Hashed(l) == l.op = "generateNetworkPolicyHash"

SameIdentityAndContent(a, b) ==
    a.name = b.name /\ a.namespace = b.namespace /\ a.spec = b.spec

----------------------------------------------------------------------------
(* Properties of the gate under failing calls *)

FailedCalls == {"Hash failed", "GetSecret failed", "GetCSR failed", "CreateCSR failed"}

\* C25 (admission fails closed): a create or update review in which the
\* fingerprinting or a store call (token read, request read, request create)
\* failed with an error other than not-found returns an error, that is,
\* denies; and a review that allows made the token read only, without a
\* failure, and found the valid token.
C25_FailsClosed ==
    IsGatedReview(last) =>
        /\ (\E i \in DOMAIN last.calls : last.calls[i] \in FailedCalls)
              => last.err # "nil"
        /\ last.err = "nil"
              => (last.calls = <<"GetSecret">> /\ GateTokenValid(last.arg))

\* a review whose token read failed has denied although the store holds the
\* valid token of the policy
C25_Witness ==
    /\ IsGatedReview(last)
    /\ last.calls = <<"GetSecret failed">>
    /\ GateTokenValid(last.arg)
    /\ last.err = "failed to check for approved certificate"

----------------------------------------------------------------------------
(* Properties over several granted requests *)

\* the keys of the tokens that cross-reference the policy (namespace, name)
TokensOf(namespace, name) ==
    {key \in DOMAIN secrets :
        /\ secrets[key].type = "networkpolicy.webhook.io/approval"
        /\ secrets[key].annotations["networkpolicy.webhook.io/np-name"] = name
        /\ secrets[key].annotations["networkpolicy.webhook.io/np-namespace"] = namespace}

\* the identities the requests and the tokens in the store point at
KnownIdentities ==
    {<<csrs[n].annotations["networkpolicy.webhook.io/namespace"],
       csrs[n].annotations["networkpolicy.webhook.io/name"]>> : n \in DOMAIN csrs}
    \cup
    {<<secrets[k].annotations["networkpolicy.webhook.io/np-namespace"],
       secrets[k].annotations["networkpolicy.webhook.io/np-name"]>> : k \in DOMAIN secrets}

\* C26 (one token per identity): in every reachable state at most one
\* approval token cross-references a policy identity, however many granted
\* requests, under whatever names, point at that identity and are reconciled.
C26_OneTokenPerIdentity ==
    \A id \in KnownIdentities : Cardinality(TokensOf(id[1], id[2])) <= 1

\* two granted requests under different names point at one identity with
\* different hashes, both have been reconciled (the token was created from
\* one and last written from the other), and the identity has one token
C26_Witness ==
    /\ last.op = "Reconcile"
    /\ last.calls = <<"GetCSR", "GetSecret", "UpdateSecret">>
    /\ \E n1 \in DOMAIN csrs, n2 \in DOMAIN csrs :
          /\ n1 # n2
          /\ last.arg = n2
          /\ csrs[n1].annotations["networkpolicy.webhook.io/name"]
                = csrs[n2].annotations["networkpolicy.webhook.io/name"]
          /\ csrs[n1].annotations["networkpolicy.webhook.io/approval-hash"]
                # csrs[n2].annotations["networkpolicy.webhook.io/approval-hash"]
          /\ LET key == TokenKeyOf(csrs[n2])
             IN /\ key \in DOMAIN secrets
                /\ secrets[key].annotations["networkpolicy.webhook.io/csr-name"] = n1
                /\ secrets[key].data["csr-name"] = n2
                /\ TokensOf(csrs[n2].annotations["networkpolicy.webhook.io/namespace"],
                            csrs[n2].annotations["networkpolicy.webhook.io/name"]) = {key}

----------------------------------------------------------------------------
(* Properties of the decision the materializer reads *)

HasDeniedCondition(csr) == \E c \in csr.conditions : c.type = "Denied"

\* C28 (a denied request produces no token): a run of Reconcile, the first or
\* a later one, for a request whose decision is Denied and not Approved
\* creates no token and changes no token, also when the request carries a
\* certificate.
C28_DeniedNoToken ==
    [][\A n \in DOMAIN csrs :
          ( /\ last'.op \in {"Reconcile", "ReconcileStopped"}
            /\ last'.arg = n
            /\ HasDeniedCondition(csrs[n])
            /\ ~HasApprovedCondition(csrs[n]) )
          => secrets' = secrets
      ]_vars

\* Reconcile has run twice for a labelled, annotated, denied request that
\* carries a certificate, and there is no token
C28_Witness ==
    /\ last.op = "Reconcile"
    /\ last.before = <<"GetCSR">>
    /\ last.arg \in DOMAIN csrs
    /\ HasLabel(csrs[last.arg])
    /\ HasDeniedCondition(csrs[last.arg])
    /\ ~HasApprovedCondition(csrs[last.arg])
    /\ HasAllAnnotations(csrs[last.arg])
    /\ csrs[last.arg].certificate # ""
    /\ secrets = <<>>

\* C29 (granted means present and true): a run of Reconcile for a request
\* whose Approved condition has a status other than True (and that has no
\* Approved condition with status True) creates no token and changes no token.
C29_ApprovedNotTrueNoToken ==
    [][\A n \in DOMAIN csrs :
          ( /\ Reconciled(last', n)
            /\ HasApprovedCondition(csrs[n])
            /\ ~IsGranted(csrs[n]) )
          => secrets' = secrets
      ]_vars

----------------------------------------------------------------------------
(* Properties of the running controller *)

\* request n is in the store and is one the materializer writes a token for
Ready(n) == n \in DOMAIN csrs /\ Materializable(csrs[n])

\* the token of the policy request n points at stores n's hash annotation
TokenStoresHashOf(n) ==
    /\ n \in DOMAIN csrs
    /\ TokenKeyOf(csrs[n]) \in DOMAIN secrets
    /\ secrets[TokenKeyOf(csrs[n])].data["hash"]
          = csrs[n].annotations["networkpolicy.webhook.io/approval-hash"]

\* C27 (liveness of materialization): whenever a labelled, annotated request
\* is granted and carries its certificate, then, under fair scheduling of
\* Reconcile, eventually a token whose stored hash equals the request's hash
\* annotation exists, unless the request stops being such a request.
C27_EventuallyMaterialized ==
    \A n \in {RequestName(np) : np \in Policies} :
        Ready(n) ~> (TokenStoresHashOf(n) \/ ~Ready(n))

\* a request the gate created was approved and certified, and a run of
\* Reconcile has created the token with the request's hash
C27_Witness ==
    /\ last.op = "Reconcile"
    /\ last.calls = <<"GetCSR", "GetSecret", "CreateSecret", "UpdateSecret">>
    /\ Ready(last.arg)
    /\ csrs[last.arg].request = last.arg
    /\ TokenStoresHashOf(last.arg)

\* C30 (deleting a request triggers the cleanup of its token): whenever a
\* guarded token cross-references a request that has been deleted, the
\* handlers the controller runs by itself eventually remove the token (or the
\* request is in the store again).
C30_DeletionTriggersCleanup ==
    \A key \in {TokenKey(np) : np \in Policies} :
        (key \in DOMAIN secrets /\ IsOrphan(secrets[key], csrs)
                                /\ Guard \in secrets[key].finalizers)
        ~> (key \notin DOMAIN secrets \/ ~IsOrphan(secrets[key], csrs))

----------------------------------------------------------------------------
(* Properties of what the sweep takes for an orphan *)

\* the token cross-references a request that is in the request store C
HasLiveRequest(token, C) ==
    /\ "networkpolicy.webhook.io/csr-name" \in DOMAIN token.annotations
    /\ token.annotations["networkpolicy.webhook.io/csr-name"] \in DOMAIN C

\* C31 (only not-found marks an orphan): a sweep leaves a token exactly as it
\* was, guard included, when the request the token cross-references is in
\* the store, and when the lookup of that request failed with an error other
\* than not-found; for such a token it makes no call after the lookup.
C31_OnlyNotFoundIsOrphan ==
    [][Swept(last') =>
          \A key \in DOMAIN secrets :
             ( \/ HasLiveRequest(secrets[key], csrs)
               \/ SweptWith(last', key, <<"GetCSR failed">>) )
             => /\ key \in DOMAIN secrets'
                /\ secrets'[key] = secrets[key]
                /\ key \in DOMAIN last'.arg
                      => last'.arg[key] \in {<<"GetCSR">>, <<"GetCSR failed">>}
      ]_vars

\* a sweep whose lookup failed for a guarded token, the request of which is
\* not in the store, has made no further call for it and has left the token
\* and its guard
C31_Witness ==
    /\ Swept(last)
    /\ last.err = "nil"
    /\ \E failed \in DOMAIN last.arg :
          /\ last.arg[failed] = <<"GetCSR failed">>
          /\ failed \in DOMAIN secrets
          /\ IsOrphan(secrets[failed], csrs)
          /\ secrets[failed].finalizers = {SweepGuard}
          /\ ~secrets[failed].deletionTimestamp

----------------------------------------------------------------------------
(* Properties of one admission *)

\* C32 (frame of admission): a create or update admission writes no token
\* (the secrets are what they were), leaves the submitted object as it was
\* submitted, leaves every request that was in the store in the store and
\* unchanged, and adds at most one request; it adds none when a request
\* with the name np-approval-<namespace>-<name> was in the store and none
\* when it allows.
C32_AdmissionFrame ==
    [][IsGatedReview(last') =>
          /\ secrets' = secrets
          /\ last'.object = last'.arg
          /\ \A n \in DOMAIN csrs : n \in DOMAIN csrs' /\ csrs'[n] = csrs[n]
          /\ Cardinality(DOMAIN csrs' \ DOMAIN csrs) <= 1
          /\ (RequestName(last'.arg) \in DOMAIN csrs \/ last'.err = "nil")
                => csrs' = csrs
      ]_vars

\* an update admission of changed content has denied while the token stores
\* the fingerprint of other content: the request that was in the store still
\* carries that other fingerprint, and the token and the labelled object are
\* as they were
C32_Witness ==
    /\ last.op = "ValidateUpdate"
    /\ last.err = "NetworkPolicy has not been approved yet"
    /\ last.calls = <<"GetSecret", "GetCSR">>
    /\ last.object = last.arg
    /\ last.arg.labels # <<>>
    /\ RequestName(last.arg) \in DOMAIN csrs
    /\ csrs[RequestName(last.arg)].annotations["networkpolicy.webhook.io/approval-hash"]
          # Fingerprint(last.arg)
    /\ TokenKey(last.arg) \in DOMAIN secrets
    /\ secrets[TokenKey(last.arg)].type = "networkpolicy.webhook.io/approval"
    /\ secrets[TokenKey(last.arg)].data["hash"]
          = csrs[RequestName(last.arg)].annotations["networkpolicy.webhook.io/approval-hash"]

----------------------------------------------------------------------------
(* Properties of the sweep racing with the materializer *)

\* request n is in the store, granted and certified, and the materializer
\* writes a token for it
GrantedReady(n) == Ready(n) /\ IsGranted(csrs[n])

\* C33 (a sweep racing with materialization is safe): in every interleaving
\* of the store calls of a sweep with the deletion and re-creation of the
\* request and with the store calls of Reconcile, whenever the request is
\* granted and carries its certificate, then, under fair scheduling of
\* Reconcile, a token that stores the request's hash exists eventually,
\* unless the request is changed again (deleted).
C33_RecreatedAfterRace ==
    GrantedReady(RequestName([name |-> <<"p1">>, namespace |-> <<"ns1">>]))
    ~> ( \/ TokenStoresHashOf(RequestName([name |-> <<"p1">>, namespace |-> <<"ns1">>]))
         \/ ~GrantedReady(RequestName([name |-> <<"p1">>, namespace |-> <<"ns1">>])) )

\* a run of Reconcile lost the token under its feet (its update was answered
\* with NotFound) to the delete call of a sweep; the next run, with no
\* external change in between, has created the token again from the granted
\* request
C33_Witness ==
    LET n   == RequestName([name |-> <<"p1">>, namespace |-> <<"ns1">>])
        key == TokenKey([name |-> <<"p1">>, namespace |-> <<"ns1">>])
    IN /\ last.op = "Reconcile"
       /\ last.err = "NotFound"
       /\ key \in DOMAIN adm["sweep"].calls
       /\ adm["sweep"].calls[key] = <<"GetCSR", "DeleteSecret">>
       /\ adm["r1"].pc = "return"
       /\ adm["r1"].path = "create"
       /\ adm["r1"].err = "nil"
       /\ GrantedReady(n)
       /\ TokenStoresHashOf(n)
       /\ ~secrets[key].deletionTimestamp
       /\ Guard \in secrets[key].finalizers

----------------------------------------------------------------------------
(* Properties of the derived request name *)

\* C34 (the request name is injective in the identity): policies with
\* different (namespace, name) pairs, where both may contain '-', never get
\* the same request name np-approval-<namespace>-<name>, so a request that
\* exists for one identity never keeps the gate from creating the request of
\* another: after a create or update admission of a policy has denied, a
\* request whose annotations point at that policy's identity is in the store.
C34_RequestNameInjective ==
    (IsGatedReview(last) /\ last.err = "NetworkPolicy has not been approved yet")
    => \E n \in DOMAIN csrs : AnnotatedFor(csrs[n], last.arg)

----------------------------------------------------------------------------
(* End-to-end properties of the approval flow *)

----------------------------------------------------------------------------
(* Properties of the token's annotations *)

\* a complete run of Reconcile for request n has just returned without an
\* error, having written the token of the policy n points at
Materialized(l, n) ==
    /\ Reconciled(l, n)
    /\ l.err = "nil"
    /\ n \in DOMAIN csrs
    /\ Materializable(csrs[n])
    /\ TokenKeyOf(csrs[n]) \in DOMAIN secrets

\* C36 (hash annotation agrees with the stored hash): after every successful
\* run of Reconcile for a granted request, on the create path and on the
\* update path, the token's approval-hash annotation equals the hash stored
\* in the token's data.
C36_HashAnnotationMatchesData ==
    \A n \in DOMAIN csrs :
        Materialized(last, n)
        => LET token == secrets[TokenKeyOf(csrs[n])]
           IN /\ "networkpolicy.webhook.io/approval-hash" \in DOMAIN token.annotations
              /\ token.annotations["networkpolicy.webhook.io/approval-hash"]
                    = token.data["hash"]

\* C37 (the cross-reference names the request that materialized last): after
\* every successful run of Reconcile for a granted request R, the csr-name
\* annotation of the token, which the sweep looks up, is R, also when the
\* token existed before and was written from a request of another name.
C37_CrossReferenceNamesLastRequest ==
    \A n \in DOMAIN csrs :
        Materialized(last, n)
        => LET token == secrets[TokenKeyOf(csrs[n])]
           IN /\ "networkpolicy.webhook.io/csr-name" \in DOMAIN token.annotations
              /\ token.annotations["networkpolicy.webhook.io/csr-name"] = n

----------------------------------------------------------------------------
(* Properties of concurrent materialization *)

\* worker w has come to the return of a run that got as far as writing
Finished(w) == adm[w].pc = "return" /\ adm[w].path # "none"

\* the token under key stores the hash and the certificate of request n
StoresGrantOf(key, n) ==
    /\ key \in DOMAIN secrets
    /\ secrets[key].data["hash"]
          = csrs[n].annotations["networkpolicy.webhook.io/approval-hash"]
    /\ secrets[key].data["tls-crt"] = csrs[n].certificate
    /\ secrets[key].data["csr-name"] = n

\* C38 (concurrent runs for one request): in every interleaving of the store
\* calls of two runs of Reconcile for the same granted request, over a store
\* that refuses a Create of an existing object and an Update of an outdated
\* version, there is at most one token, under the policy's key; its data are
\* either wholly what they were before or wholly the request's, never a mix;
\* once a run has come to its return having got as far as a write, the token
\* stores the request's hash and certificate; a run that returns no error
\* leaves the token guarded; a run whose write was refused returns that
\* error (AlreadyExists or Conflict); and of two runs that both went for the
\* creation exactly one returns no error.
C38_ConcurrentReconcileOneToken ==
    LET np  == [name |-> <<"p1">>, namespace |-> <<"ns1">>]
        n   == RequestName(np)
        key == TokenKey(np)
    IN /\ DOMAIN secrets \subseteq {key}
       /\ key \in DOMAIN secrets
             => \/ StoresGrantOf(key, n)
                \/ secrets[key].data = ("hash" :> <<"old-hash">>)
                                       @@ ("tls-crt" :> "old-certificate-data")
                                       @@ ("csr-name" :> n)
       /\ \A w \in {"r1", "r2"} :
             Finished(w)
             => /\ StoresGrantOf(key, n)
                /\ adm[w].err \in {"nil", "AlreadyExists", "Conflict"}
                /\ adm[w].err = "nil" => Guard \in secrets[key].finalizers
       /\ (Finished("r1") /\ Finished("r2")
           /\ adm["r1"].path = "create" /\ adm["r2"].path = "create")
             => Cardinality({w \in {"r1", "r2"} : adm[w].err = "nil"}) = 1

\* both runs read the token of the earlier grant in the same version; the
\* update of one was answered with Conflict, the other has replaced the data
\* and attached the guard
C38_Witness ==
    LET np  == [name |-> <<"p1">>, namespace |-> <<"ns1">>]
        key == TokenKey(np)
    IN /\ Finished("r1") /\ Finished("r2")
       /\ adm["r1"].path = "update" /\ adm["r2"].path = "update"
       /\ adm["r1"].err = "nil"
       /\ adm["r2"].err = "Conflict"
       /\ adm["r2"].copies[key].data["hash"] = <<"old-hash">>
       /\ adm["r2"].copies[key].finalizers = {}
       /\ StoresGrantOf(key, RequestName(np))
       /\ Guard \in secrets[key].finalizers

----------------------------------------------------------------------------
(* Frame of the sweep *)

\* the store calls a sweep makes on objects other than the listed secret's
\* request: none on a policy object, none that writes a request
SweepCalls == {"GetCSR", "UpdateSecret", "DeleteSecret"}

\* after is what a sweep may make of the token before: the same object but
\* for the guard the sweep clears and the deletion timestamp
OnlyGuardAndDeletion(before, after) ==
    /\ after.type = before.type
    /\ after.labels = before.labels
    /\ after.annotations = before.annotations
    /\ after.data = before.data
    /\ after.finalizers \in {before.finalizers, before.finalizers \ {SweepGuard}}

\* C39 (frame of the sweep): a sweep creates no secret and changes no
\* request; it leaves as they were every secret that is not of the approval
\* type, every token without the csr-name annotation and every token whose
\* request is in the store; the only calls it makes are the lookup of the
\* request, the update that clears the guard and the delete, on listed
\* tokens, so it makes no call on a policy object; and what it changes of an
\* orphaned token is the guard and the deletion (timestamp or removal) only.
C39_SweepFrame ==
    [][Swept(last') =>
          /\ csrs' = csrs
          /\ DOMAIN secrets' \subseteq DOMAIN secrets
          /\ \A key \in DOMAIN last'.arg :
                /\ key \in DOMAIN secrets
                /\ secrets[key].type = "networkpolicy.webhook.io/approval"
                /\ \A i \in DOMAIN last'.arg[key] : last'.arg[key][i] \in SweepCalls
          /\ \A key \in DOMAIN secrets :
                /\ ~IsOrphan(secrets[key], csrs)
                      => /\ key \in DOMAIN secrets'
                         /\ secrets'[key] = secrets[key]
                         /\ key \in DOMAIN last'.arg
                               => last'.arg[key] \in {<<>>, <<"GetCSR">>}
                /\ key \in DOMAIN secrets'
                      => OnlyGuardAndDeletion(secrets[key], secrets'[key])
      ]_vars

\* a sweep has removed an orphaned token and has left, as they were, a guarded
\* secret of another type and the request in the store
C39_Witness ==
    /\ Swept(last)
    /\ \E removed \in DOMAIN last.arg :
          /\ last.arg[removed] = <<"GetCSR", "UpdateSecret", "DeleteSecret">>
          /\ removed \notin DOMAIN secrets
    /\ \E kept \in DOMAIN secrets :
          /\ secrets[kept].type # "networkpolicy.webhook.io/approval"
          /\ "networkpolicy.webhook.io/csr-name" \in DOMAIN secrets[kept].annotations
          /\ secrets[kept].finalizers = {SweepGuard}
          /\ ~secrets[kept].deletionTimestamp
          /\ kept \notin DOMAIN last.arg
====
